---- MODULE Spec2Model ----
(***************************************************************************)
(* A state-machine model of the ACME discrete-event RF communications      *)
(* simulator: comms platforms (CommsPlatform.py), the medium-access        *)
(* coordinator (CommsCoordinator.py), disruptor platforms                  *)
(* (DisruptorPlatform.py) and the environment step loop (Environment.py).  *)
(*                                                                         *)
(* Conventions.  Python lists are TLA+ sequences, so a Python index i is   *)
(* the TLA+ index i+1; freqBin keeps the Python (0-based) value.  Time is  *)
(* counted in integer ticks (deltaT is a whole number of ticks).  The      *)
(* kinematic state (pos, vel, acc) is not modelled.  Emission objects are  *)
(* records: an object is shared by reference between bins, snapshots,      *)
(* batches and logs and is written once more after it enters bins (its     *)
(* emissionTime, stamped in the step that places it), so the records hold  *)
(* the stamped value everywhere from the end of that step.                 *)
(***************************************************************************)
EXTENDS Integers, Sequences, FiniteSets, TLC

VARIABLES
    \* ---- configuration, fixed at construction
    commsPlatformIDs,       \* Environment.commsPlatformIDs (tuple of ids)
    disruptorPlatformIDs,   \* Environment.disruptorPlatformIDs
    numFrequencyBins,       \* Environment.numFrequencyBins
    disruptorDelay,         \* Environment.disruptorDelay
    mac,                    \* CommsCoordinator.mac
    windowSize,             \* Environment.windowSize (ticks)
    maxSize,                \* theMaxSize of each comms platform's queues
    doAck,                  \* CommsPlatform.doAck, per platform
    numMaxTokens,           \* DisruptorPlatform.numMaxTokens, per disruptor
    numTimeStepsPerEpoch,   \* DisruptorPlatform.numTimeStepsPerEpoch
    \* ---- comms platforms
    txQueue, rxQueue,       \* CommsPlatform.txQueue / rxQueue
    currentMsgID,           \* CommsPlatform.__currentMsgID
    destIDs,                \* CommsPlatform.destIDs
    commsElapsedTime,       \* Platform.elapsedTime of each comms platform
    \* ---- disruptor platforms
    numTokensRemaining,     \* DisruptorPlatform.numTokensRemaining
    commsDestIDs,           \* DisruptorPlatform.commsDestIDs
    env,                    \* DisruptorPlatform.env (the delayed observation)
    disruptorElapsedTime,   \* Platform.elapsedTime of each disruptor
    elapsedTimeSteps,       \* Platform.elapsedTimeSteps of each disruptor
    \* ---- coordinator
    TDMAindex,              \* CommsCoordinator.__TDMAindex (0-based)
    \* ---- environment
    adjMatrix,              \* Environment.adjMatrix
    data,                   \* Environment.data (the bins grid)
    dataQueue,              \* Environment.__dataQueue
    trafficTx, trafficRx,   \* Environment.__trafficTx / __trafficRx
    elapsedTime,            \* Environment.elapsedTime
    txData,                 \* the batches of the latest step (local txData)
    \* ---- the user's mutable payload objects
    heap,                   \* content of every mutable payload object
    held,                   \* the objects the user has a reference to
    lists,                  \* identity of the list objects that make up data,
                            \* the history queue's snapshots and each env
    \* ---- what the latest call returned or raised
    ret,                    \* value returned by the latest call
    raised,                 \* exception left by a call ("" when none)
    \* ---- bookkeeping of the exploration
    history,                \* data as it stood at the end of every step
    numTx                   \* number of txData calls (or rounds of calls,
                            \* one per platform) made so far

vars == << commsPlatformIDs, disruptorPlatformIDs, numFrequencyBins,
           disruptorDelay, mac, windowSize, maxSize, doAck, numMaxTokens,
           numTimeStepsPerEpoch, txQueue, rxQueue, currentMsgID, destIDs,
           commsElapsedTime, numTokensRemaining, commsDestIDs, env,
           disruptorElapsedTime, elapsedTimeSteps, TDMAindex, adjMatrix,
           data, dataQueue, trafficTx, trafficRx, elapsedTime, txData, heap,
           held, lists, ret, raised, history, numTx >>

config == << commsPlatformIDs, disruptorPlatformIDs, numFrequencyBins,
             disruptorDelay, mac, windowSize, maxSize, doAck, numMaxTokens,
             numTimeStepsPerEpoch >>

(***************************************************************************)
(* Bounds of the exploration.                                              *)
(***************************************************************************)
MaxSteps == 3       \* Environment.step is called at most MaxSteps times
MaxTx == 2          \* txData is called at most MaxTx times

Payloads == {70, 71}

(***************************************************************************)
(* Python values.                                                          *)
(***************************************************************************)
None == [type |-> "None"]   \* an empty bin, disruptor.env before any step
NoPayload == -1             \* rxData's None
NoTime == -1                \* emissionTime before the emission is placed

\* A payload is an immutable value (an integer from NoPayload up) or a
\* reference to a mutable object: the n-th object created is NoPayload - n
\* and its content is heap[n].
IsRef(x) == x < NoPayload
RefOf(n) == NoPayload - n
Addr(x) == NoPayload - x
Content(h, x) == IF IsRef(x) THEN h[Addr(x)] ELSE x

\* Faulty variant of copy.deepcopy: the object itself is returned.
deepcopy_Alias(h, x) == [heap |-> h, value |-> x]

\* copy.deepcopy(x): an immutable value is returned as it is; a mutable
\* object gets a new object with the same content.
deepcopy(h, x) ==
    IF IsRef(x)
    THEN [heap |-> Append(h, h[Addr(x)]), value |-> RefOf(Len(h) + 1)]
    ELSE [heap |-> h, value |-> x]

numCommsPlatforms == Len(commsPlatformIDs)
numDisruptorPlatforms == Len(disruptorPlatformIDs)
numCoordinators == 1
Comms == 1..numCommsPlatforms
Disruptors == 1..numDisruptorPlatforms
Bins == 1..numFrequencyBins

\* list.index: the first position of x in s; 0 stands for ValueError.
IndexOf(s, x) ==
    IF \E i \in 1..Len(s) : s[i] = x
    THEN CHOOSE i \in 1..Len(s) : s[i] = x /\ \A j \in 1..(i - 1) : s[j] # x
    ELSE 0

Min(a, b) == IF a <= b THEN a ELSE b

(***************************************************************************)
(* EmissionObj.py                                                          *)
(***************************************************************************)
Packet(theSourceID, theDestID, theTime, thePayload, theMsgID) ==
    [ type |-> "Packet", sourceID |-> theSourceID, destID |-> theDestID,
      time |-> theTime, emissionTime |-> NoTime, freqBin |-> 0,
      sourceType |-> 0, payload |-> thePayload, msgID |-> theMsgID ]

AckPacket(theSourceID, theDestID, theTime, thePayload, theMsgID) ==
    [ type |-> "AckPacket", sourceID |-> theSourceID, destID |-> theDestID,
      time |-> theTime, emissionTime |-> NoTime, freqBin |-> 0,
      sourceType |-> 0, payload |-> thePayload, msgID |-> theMsgID ]

DisruptionToken(theSourceID, theDestID, theTime) ==
    [ type |-> "DisruptionToken", sourceID |-> theSourceID,
      destID |-> theDestID, time |-> theTime, emissionTime |-> NoTime,
      freqBin |-> 0, sourceType |-> 1 ]

\* isinstance(e, AckPacket); isinstance(e, DisruptionToken)
IsAckPacket(e) == e.type = "AckPacket"
IsDisruptionToken(e) == e.type = "DisruptionToken"

(***************************************************************************)
(* CommsPlatform.py.  A platform is the record                             *)
(*   [id, txQueue, rxQueue, currentMsgID, elapsedTime, doAck]              *)
(* assembled from the variables by PlatformOf.                             *)
(***************************************************************************)
PlatformOf(i) ==
    [ id |-> commsPlatformIDs[i], txQueue |-> txQueue[i],
      rxQueue |-> rxQueue[i], currentMsgID |-> currentMsgID[i],
      elapsedTime |-> commsElapsedTime[i], doAck |-> doAck[i],
      destIDs |-> destIDs[i] ]

\* Faulty variant of __txPacket: the queue takes the packet when full.
txPacket_Unbounded(p, thePacket) == [p EXCEPT !.txQueue = Append(@, thePacket)]

\* CommsPlatform.__txPacket: a full queue drops the packet (with a warning).
txPacket(p, thePacket) ==
    IF Len(p.txQueue) >= maxSize
    THEN p
    ELSE [p EXCEPT !.txQueue = Append(@, thePacket)]

\* Faulty variant of __getNextMsgID: the counter is not advanced.
getNextMsgID_Stuck(p) == p

\* CommsPlatform.__getNextMsgID: the id handed out is p.currentMsgID.
getNextMsgID(p) == [p EXCEPT !.currentMsgID = @ + 1]

\* Faulty variant of txData: only the ids in destIDs are kept (the code's
\* commented-out line 120).
txDataCall_DestIDsOnly(p, thePayload, theDestID) ==
    txPacket(getNextMsgID(p),
             Packet(p.id,
                    SelectSeq(theDestID,
                              LAMBDA x : \E n \in 1..Len(p.destIDs) : p.destIDs[n] = x),
                    p.elapsedTime, thePayload, p.currentMsgID))

\* CommsPlatform.txData
txDataCall(p, thePayload, theDestID) ==
    txPacket(getNextMsgID(p),
             Packet(p.id, theDestID, p.elapsedTime, thePayload, p.currentMsgID))

\* Faulty variants of putOne: an Ack handled like a data packet; an Ack that
\* carries the payload instead of the msg id; a payload enqueued at the front.
putOne_AckAsData(p, thePacket) ==
    IF Len(p.rxQueue) >= maxSize THEN p
    ELSE LET q == [p EXCEPT !.rxQueue = Append(@, thePacket.payload)]
         IN  IF q.doAck
             THEN txPacket(getNextMsgID(q),
                           AckPacket(q.id, <<thePacket.sourceID>>, q.elapsedTime,
                                     thePacket.msgID, q.currentMsgID))
             ELSE q

putOne_AckOfPayload(p, thePacket) ==
    IF IsAckPacket(thePacket) THEN p
    ELSE IF Len(p.rxQueue) >= maxSize THEN p
    ELSE LET q == [p EXCEPT !.rxQueue = Append(@, thePacket.payload)]
         IN  IF q.doAck
             THEN txPacket(getNextMsgID(q),
                           AckPacket(q.id, <<thePacket.sourceID>>, q.elapsedTime,
                                     thePacket.payload, q.currentMsgID))
             ELSE q

putOne_Front(p, thePacket) ==
    IF IsAckPacket(thePacket) THEN p
    ELSE IF Len(p.rxQueue) >= maxSize THEN p
    ELSE LET q == [p EXCEPT !.rxQueue = <<thePacket.payload>> \o @]
         IN  IF q.doAck
             THEN txPacket(getNextMsgID(q),
                           AckPacket(q.id, <<thePacket.sourceID>>, q.elapsedTime,
                                     thePacket.msgID, q.currentMsgID))
             ELSE q

\* Faulty variant of the loop body of putData: the Ack is queued before the
\* rx queue is tested, so a dropped packet is acknowledged too.
putOne_AckAlways(p, thePacket) ==
    IF IsAckPacket(thePacket) THEN p
    ELSE LET q == IF Len(p.rxQueue) >= maxSize THEN p
                  ELSE [p EXCEPT !.rxQueue = Append(@, thePacket.payload)]
         IN  IF q.doAck
             THEN txPacket(getNextMsgID(q),
                           AckPacket(q.id, <<thePacket.sourceID>>, q.elapsedTime,
                                     thePacket.msgID, q.currentMsgID))
             ELSE q

\* Faulty variant of the loop body of putData: an AckPacket is answered
\* with an Ack of its own.
putOne_AckTheAck(p, thePacket) ==
    IF Len(p.rxQueue) >= maxSize /\ ~IsAckPacket(thePacket) THEN p
    ELSE LET q == IF IsAckPacket(thePacket) THEN p
                  ELSE [p EXCEPT !.rxQueue = Append(@, thePacket.payload)]
         IN  IF q.doAck
             THEN txPacket(getNextMsgID(q),
                           AckPacket(q.id, <<thePacket.sourceID>>, q.elapsedTime,
                                     thePacket.msgID, q.currentMsgID))
             ELSE q

\* CommsPlatform.putData, one element of theEmissionList
putOne(p, thePacket) ==
    IF IsAckPacket(thePacket) THEN p
    ELSE IF Len(p.rxQueue) >= maxSize THEN p
    ELSE LET q == [p EXCEPT !.rxQueue = Append(@, thePacket.payload)]
         IN  IF q.doAck
             THEN txPacket(getNextMsgID(q),
                           AckPacket(q.id, <<thePacket.sourceID>>, q.elapsedTime,
                                     thePacket.msgID, q.currentMsgID))
             ELSE q

RECURSIVE putAll(_, _)
putAll(p, theEmissionList) ==
    IF theEmissionList = <<>> THEN p
    ELSE putAll(putOne(p, Head(theEmissionList)), Tail(theEmissionList))

\* Faulty variant of putData: tokens are dropped, the packets are received.
putData_DropTokensOnly(p, theEmissionList) ==
    putAll(p, SelectSeq(theEmissionList, LAMBDA e : ~IsDisruptionToken(e)))

\* CommsPlatform.putData
putData(p, theEmissionList) ==
    IF \E n \in 1..Len(theEmissionList) : IsDisruptionToken(theEmissionList[n])
    THEN p
    ELSE putAll(p, theEmissionList)

\* CommsPlatform.rxData: the payload returned, and the platform afterwards
rxDataValue(p) == IF p.rxQueue = <<>> THEN NoPayload ELSE Head(p.rxQueue)
rxDataCall(p) == IF p.rxQueue = <<>> THEN p ELSE [p EXCEPT !.rxQueue = Tail(@)]

\* CommsPlatform.getData: the packet returned, and the platform afterwards
\* Faulty variant of getData: the newest item is returned (the head is removed).
getDataValue_Newest(p) == IF p.txQueue = <<>> THEN None ELSE p.txQueue[Len(p.txQueue)]

getDataValue(p) == IF p.txQueue = <<>> THEN None ELSE Head(p.txQueue)
getDataCall(p) == IF p.txQueue = <<>> THEN p ELSE [p EXCEPT !.txQueue = Tail(@)]

(***************************************************************************)
(* CommsCoordinator.py.  Each policy maps the tuple of platforms ps to     *)
(*   [platforms, txPackets, TDMAindex, raised].                            *)
(***************************************************************************)
EmptyBins == [b \in Bins |-> None]

\* CommsCoordinator.__stepRoundRobin, from platform i on with `index` bins
\* filled; the loop breaks as soon as index = numFrequencyBins.
RECURSIVE roundRobinFrom(_, _, _, _)
roundRobinFrom(i, index, ps, txPackets) ==
    IF i > Len(ps) THEN [platforms |-> ps, txPackets |-> txPackets]
    ELSE LET theData == getDataValue(ps[i])
             ps1 == [ps EXCEPT ![i] = getDataCall(@)]
             tx1 == IF theData # None
                    THEN [txPackets EXCEPT ![index + 1] = theData]
                    ELSE txPackets
             index1 == IF theData # None THEN index + 1 ELSE index
         IN  IF index1 = numFrequencyBins
             THEN [platforms |-> ps1, txPackets |-> tx1]
             ELSE roundRobinFrom(i + 1, index1, ps1, tx1)

\* Faulty variant of __stepRoundRobin: the first platform fills the bins
\* with as many of its items as there are bins.
stepRoundRobin_Greedy(ps, tdma) ==
    LET n == Min(Len(ps[1].txQueue), numFrequencyBins)
    IN  [ platforms |-> [ps EXCEPT ![1].txQueue =
                            SubSeq(@, n + 1, Len(@))],
          txPackets |-> [b \in Bins |-> IF b <= n THEN ps[1].txQueue[b]
                                        ELSE None],
          TDMAindex |-> tdma, raised |-> "" ]

\* Faulty variant of __stepRoundRobin: platform i owns bin i, whether it has
\* data or not, and platforms beyond the last bin do not transmit.
stepRoundRobin_FixedBins(ps, tdma) ==
    [ platforms |-> [i \in 1..Len(ps) |-> IF i <= numFrequencyBins
                                          THEN getDataCall(ps[i]) ELSE ps[i]],
      txPackets |-> [b \in Bins |-> IF b <= Len(ps) THEN getDataValue(ps[b])
                                    ELSE None],
      TDMAindex |-> tdma, raised |-> "" ]

\* Faulty variant of __stepRoundRobin: the scan skips the first platform.
stepRoundRobin_SkipFirst(ps, tdma) ==
    LET r == roundRobinFrom(2, 0, ps, EmptyBins)
    IN  [ platforms |-> r.platforms, txPackets |-> r.txPackets,
          TDMAindex |-> tdma, raised |-> "" ]

stepRoundRobin(ps, tdma) ==
    LET r == roundRobinFrom(1, 0, ps, EmptyBins)
    IN  [ platforms |-> r.platforms, txPackets |-> r.txPackets,
          TDMAindex |-> tdma, raised |-> "" ]

\* Faulty variant of __stepTDMA: the turn passes on only when the platform
\* had something to transmit.
stepTDMA_HoldOnEmpty(ps, tdma) ==
    [ platforms |-> [ps EXCEPT ![tdma + 1] = getDataCall(@)],
      txPackets |-> << getDataValue(ps[tdma + 1]) >>,
      TDMAindex |-> IF getDataValue(ps[tdma + 1]) = None THEN tdma
                    ELSE IF tdma + 1 = Len(ps) THEN 0 ELSE tdma + 1,
      raised |-> "" ]

\* CommsCoordinator.__stepTDMA
stepTDMA(ps, tdma) ==
    IF numFrequencyBins # 1
    THEN [ platforms |-> ps, txPackets |-> <<>>, TDMAindex |-> tdma,
           raised |-> "ValueError" ]
    ELSE [ platforms |-> [ps EXCEPT ![tdma + 1] = getDataCall(@)],
           txPackets |-> << getDataValue(ps[tdma + 1]) >>,
           TDMAindex |-> IF tdma + 1 = Len(ps) THEN 0 ELSE tdma + 1,
           raised |-> "" ]

\* Faulty variant of __stepFDMA: the bins are packed as round robin does.
stepFDMA_Packed(ps, tdma) == stepRoundRobin(ps, tdma)

\* CommsCoordinator.__stepFDMA
stepFDMA(ps, tdma) ==
    IF numFrequencyBins < Len(ps)
    THEN [ platforms |-> ps, txPackets |-> <<>>, TDMAindex |-> tdma,
           raised |-> "ValueError" ]
    ELSE [ platforms |-> [i \in 1..Len(ps) |-> getDataCall(ps[i])],
           txPackets |-> [b \in Bins |-> IF b <= Len(ps)
                                         THEN getDataValue(ps[b])
                                         ELSE None],
           TDMAindex |-> tdma, raised |-> "" ]

\* Faulty variant of the second half of CommsCoordinator.step: the packets
\* keep the bin index they were constructed with.
assignFreqBin_Keep(txPackets) == txPackets

\* CommsCoordinator.step, second half: every packet gets its bin index.
assignFreqBin(txPackets) ==
    [b \in 1..Len(txPackets) |->
        IF txPackets[b] # None
        THEN [txPackets[b] EXCEPT !.freqBin = b - 1]
        ELSE None]

\* CommsCoordinator.step
coordinatorStep(ps, tdma) ==
    LET r == CASE mac = "rr" -> stepRoundRobin(ps, tdma)
               [] mac = "tdma" -> stepTDMA(ps, tdma)
               [] mac = "fdma" -> stepFDMA(ps, tdma)
               [] OTHER -> [ platforms |-> ps, txPackets |-> <<>>,
                             TDMAindex |-> tdma, raised |-> "ValueError" ]
    IN  [r EXCEPT !.txPackets = assignFreqBin(@)]

(***************************************************************************)
(* DisruptorPlatform.py                                                    *)
(***************************************************************************)
\* DisruptorPlatform.step: the token budget after the platform's step, given
\* the platform's new count of steps.
\* Faulty variant of DisruptorPlatform.step: the budget is never reset.
tokensAfterStep_NoReset(k, steps) == numTokensRemaining[k]

tokensAfterStep(k, steps) ==
    IF steps % numTimeStepsPerEpoch[k] = 0
    THEN numMaxTokens[k]
    ELSE numTokensRemaining[k]

\* DisruptorPlatform.getDisruptions: the number of tokens used in a step
numTokensToUse(remaining) == Min(Min(remaining, 1), numFrequencyBins)

\* DisruptorPlatform.getDisruptions: the tokens, given the bins sampled
getDisruptions(k, index, theDestIDs, theTime) ==
    [b \in Bins |->
        IF b \in index
        THEN [DisruptionToken(disruptorPlatformIDs[k], theDestIDs, theTime)
                EXCEPT !.freqBin = b - 1]
        ELSE None]

(***************************************************************************)
(* Environment.py                                                          *)
(***************************************************************************)
RECURSIVE Concat(_)
Concat(ss) == IF ss = <<>> THEN <<>> ELSE Head(ss) \o Concat(Tail(ss))

IsEmission(e) == e # None

\* Environment.__indexToID over the nonzero entries of row m of adjMatrix,
\* restricted to the comms columns (Environment.__updatePlatformConnectivity)
RECURSIVE destsFrom(_, _, _)
destsFrom(adj, m, j) ==
    IF j > numCommsPlatforms THEN <<>>
    ELSE (IF adj[m][j] THEN <<commsPlatformIDs[j]>> ELSE <<>>)
         \o destsFrom(adj, m, j + 1)

\* Faulty variant of __updatePlatformConnectivity: every comms id is listed.
updatePlatformConnectivity_All(adj, m) == commsPlatformIDs

updatePlatformConnectivity(adj, m) == destsFrom(adj, m, 1)

\* Environment.__copyEnv: new outer and inner lists, the same emissions
copyEnv(theEnv) == [r \in 1..Len(theEnv) |-> [b \in 1..Len(theEnv[r]) |-> theEnv[r][b]]]

\* Faulty variant of the filter: a disruptor's own tokens are kept whatever
\* the matrix says.
filterEnv_KeepOwn(adj, k, theEnv) ==
    [r \in 1..Len(theEnv) |->
        [b \in 1..Len(theEnv[r]) |->
            LET e == theEnv[r][b]
            IN  IF e = None THEN None
                ELSE IF r <= numCoordinators
                THEN IF adj[IndexOf(commsPlatformIDs, e.sourceID)]
                           [k + numCommsPlatforms]
                     THEN e ELSE None
                ELSE IF \/ IndexOf(disruptorPlatformIDs, e.sourceID) = k
                        \/ adj[IndexOf(disruptorPlatformIDs, e.sourceID)
                                 + numCommsPlatforms][k + numCommsPlatforms]
                     THEN e ELSE None]]

\* Environment.step, lines 287-309: the view of snapshot theEnv given to
\* disruptor k under the adjacency matrix adj
filterEnv(adj, k, theEnv) ==
    [r \in 1..Len(theEnv) |->
        [b \in 1..Len(theEnv[r]) |->
            LET e == theEnv[r][b]
            IN  IF e = None THEN None
                ELSE IF r <= numCoordinators
                THEN IF adj[IndexOf(commsPlatformIDs, e.sourceID)]
                           [k + numCommsPlatforms]
                     THEN e ELSE None
                ELSE IF adj[IndexOf(disruptorPlatformIDs, e.sourceID)
                              + numCommsPlatforms][k + numCommsPlatforms]
                     THEN e ELSE None]]

\* The head of the history queue handed to the disruptors, and the queue
\* after the step's put (Environment.step, lines 284 and 316)
\* Faulty variant of queueGet: the newest snapshot instead of the oldest.
\* queue.Queue with the default block = True and no timeout: get waits for
\* ever on an empty queue, put on a full one (maxsize 0 is never full).
getBlocks(q) == q = <<>>
putBlocks(q, maxsize) == maxsize > 0 /\ Len(q) >= maxsize

\* Faulty variant of the constructor: the history queue is left empty.
dataQueueAtConstruction_Empty(grid, delay) == <<>>

\* Environment.__init__, lines 200-204: the history queue has room for
\* theDisruptorDelay snapshots and is filled with copies of the empty grid.
dataQueueAtConstruction(grid, delay) == [n \in 1..delay |-> copyEnv(grid)]

queueGet_Newest(q) == q[Len(q)]
queueGet(q) == Head(q)
\* Faulty variant of the history queue: step puts without getting.
queuePut_NoGet(q, theEnv) == Append(q, copyEnv(theEnv))

\* Environment.step, lines 284 and 316: the head is taken, the grid is put.
\* Faulty variant of the put of line 316: the status is filtered for
\* disruptor 1 with the matrix of the step that captures it.
queuePut_FilteredAtCapture(q, theEnv) == Append(Tail(q), filterEnv(adjMatrix, 1, copyEnv(theEnv)))

queuePut(q, theEnv) == Append(Tail(q), copyEnv(theEnv))

(***************************************************************************)
(* The list objects.  An environment status is a list of row lists; the    *)
(* filter of step writes None into row lists in place, so which statuses   *)
(* share a row list decides what the filter changes.  A status is recorded *)
(* as the identity of its outer list and of its row lists; identities are  *)
(* numbers handed out in the order the lists are created.                  *)
(***************************************************************************)
\* disruptor.env before the first step: no list at all
NoLists == [list |-> 0, items |-> <<>>]

\* Faulty variant of __copyEnv on list objects: only the top-level list is
\* copied, the row lists are those of the original.
copyEnvLists_Shallow(theEnv, next) == [list |-> next + 1, items |-> theEnv.items]

\* Environment.__copyEnv on list objects: theEnv.copy() is a new outer list
\* and each item.copy() a new row list.
copyEnvLists(theEnv, next) == [list |-> next + 1, items |-> [r \in 1..Len(theEnv.items) |-> next + 1 + r]]

\* __init__: self.data and its rows are new lists, and each entry of the
\* history queue is a copy of self.data.
listsAtConstruction(R, D, delay) ==
    LET theData == [list |-> 1, items |-> [r \in 1..R |-> 1 + r]]
    IN  [data  |-> theData,
         queue |-> [n \in 1..delay |-> copyEnvLists(theData, n * (R + 1))],
         env   |-> [k \in 1..D |-> NoLists],
         next  |-> (delay + 1) * (R + 1)]

\* The row lists' contents H after the rows of status c are set to grid
store(H, c, grid) ==
    LET ids == { c.items[r] : r \in 1..Len(c.items) }
    IN  [id \in DOMAIN H \cup ids |->
            IF id \in ids
            THEN grid[CHOOSE r \in 1..Len(c.items) : c.items[r] = id]
            ELSE H[id]]

\* The status c read through the row lists' contents H
contents(H, c) == [r \in 1..Len(c.items) |-> H[c.items[r]]]

\* The contents of the row lists of the history queue's entries n, n+1, ...
RECURSIVE storeQueue(_, _, _, _)
storeQueue(H, q, grids, n) ==
    IF n > Len(q) \/ n > Len(grids) THEN H
    ELSE storeQueue(store(H, q[n], grids[n]), q, grids, n + 1)

\* The copy of theEnv disruptor k is given in step (line 289)
theEnvTemp(theEnv, k, next) ==
    copyEnvLists(theEnv, next + (k - 1) * (Len(theEnv.items) + 1))

\* Lines 287-309 of step for disruptors 1..k in turn: each copies theEnv and
\* empties cells of its copy's row lists in place.
RECURSIVE filterAll(_, _, _, _, _)
filterAll(adj, k, H, theEnv, next) ==
    IF k = 0 THEN H
    ELSE LET Hk == filterAll(adj, k - 1, H, theEnv, next)
             temp == theEnvTemp(theEnv, k, next)
             copied == store(Hk, temp, contents(Hk, theEnv))
         IN  store(copied, temp, filterEnv(adj, k, contents(copied, temp)))

\* The history queue read back through the row lists' contents H
queueContents(H, q, grids) ==
    [n \in 1..Len(grids) |->
        IF n <= Len(q) THEN contents(H, q[n]) ELSE grids[n]]

\* Faulty variant of line 325: the emission time is the time of creation.
stampEmissionTime_Created(grid, now) ==
    [r \in 1..Len(grid) |->
        [b \in 1..Len(grid[r]) |->
            IF grid[r][b] = None THEN None
            ELSE [grid[r][b] EXCEPT !.emissionTime = grid[r][b].time]]]

\* Environment.step, line 325: every emission in bins gets the current time
stampEmissionTime(grid, now) ==
    [r \in 1..Len(grid) |->
        [b \in 1..Len(grid[r]) |->
            IF grid[r][b] = None THEN None
            ELSE [grid[r][b] EXCEPT !.emissionTime = now]]]

\* Faulty variant of the loops of lines 321-327: only the first destination
\* of an emission is served.
deliveries_FirstDestOnly(grid) ==
    LET ems == SelectSeq(Concat(grid), IsEmission)
    IN  Concat([n \in 1..Len(ems) |->
                  IF ems[n].destID = <<>> THEN <<>>
                  ELSE << <<ems[n], ems[n].destID[1]>> >>])

\* The (emission, destID) pairs in the order of the loops of lines 321-327
deliveries(grid) ==
    LET ems == SelectSeq(Concat(grid), IsEmission)
    IN  Concat([n \in 1..Len(ems) |->
                  [m \in 1..Len(ems[n].destID) |-> <<ems[n], ems[n].destID[m]>>]])

\* Faulty variant of fanOutOne: the attempt is logged only when the link is up.
fanOutOne_LogIfAdjacent(adj, acc, emissionObj, destID) ==
    LET destPlatformIndex == IndexOf(commsPlatformIDs, destID)
        sourcePlatformIndex ==
            IF emissionObj.sourceType = 0
            THEN IndexOf(commsPlatformIDs, emissionObj.sourceID)
            ELSE IndexOf(disruptorPlatformIDs, emissionObj.sourceID)
                 + numCommsPlatforms
    IN  IF destPlatformIndex = 0 \/ ~adj[sourcePlatformIndex][destPlatformIndex]
        THEN acc
        ELSE [ trafficTx |->
                 IF emissionObj.sourceType = 0
                 THEN [acc.trafficTx EXCEPT
                         ![sourcePlatformIndex][destPlatformIndex]
                             = Append(@, emissionObj)]
                 ELSE acc.trafficTx,
               txData |-> [acc.txData EXCEPT ![destPlatformIndex]
                                               = Append(@, emissionObj)] ]

\* Faulty variant of fanOutOne: the source is looked up by id among the comms
\* platforms first, whatever its kind.
fanOutOne_SourceByID(adj, acc, emissionObj, destID) ==
    LET destPlatformIndex == IndexOf(commsPlatformIDs, destID)
        sourcePlatformIndex ==
            IF IndexOf(commsPlatformIDs, emissionObj.sourceID) # 0
            THEN IndexOf(commsPlatformIDs, emissionObj.sourceID)
            ELSE IndexOf(disruptorPlatformIDs, emissionObj.sourceID)
                 + numCommsPlatforms
        logged ==
            IF emissionObj.sourceType = 0
            THEN [acc.trafficTx EXCEPT ![sourcePlatformIndex][destPlatformIndex]
                                          = Append(@, emissionObj)]
            ELSE acc.trafficTx
    IN  IF destPlatformIndex = 0 THEN acc
        ELSE [ trafficTx |-> logged,
               txData |-> IF adj[sourcePlatformIndex][destPlatformIndex]
                          THEN [acc.txData EXCEPT ![destPlatformIndex]
                                                    = Append(@, emissionObj)]
                          ELSE acc.txData ]

\* Environment.step, lines 328-339, one (emission, destID) pair.  A destID of
\* no comms platform raises ValueError in list.index, which is swallowed.
fanOutOne(adj, acc, emissionObj, destID) ==
    LET destPlatformIndex == IndexOf(commsPlatformIDs, destID)
        sourcePlatformIndex ==
            IF emissionObj.sourceType = 0
            THEN IndexOf(commsPlatformIDs, emissionObj.sourceID)
            ELSE IndexOf(disruptorPlatformIDs, emissionObj.sourceID)
                 + numCommsPlatforms
        logged ==
            IF emissionObj.sourceType = 0
            THEN [acc.trafficTx EXCEPT ![sourcePlatformIndex][destPlatformIndex]
                                          = Append(@, emissionObj)]
            ELSE acc.trafficTx
    IN  IF destPlatformIndex = 0 THEN acc
        ELSE [ trafficTx |-> logged,
               txData |-> IF adj[sourcePlatformIndex][destPlatformIndex]
                          THEN [acc.txData EXCEPT ![destPlatformIndex]
                                                    = Append(@, emissionObj)]
                          ELSE acc.txData ]

RECURSIVE fanOutFrom(_, _, _)
fanOutFrom(adj, acc, pairs) ==
    IF pairs = <<>> THEN acc
    ELSE fanOutFrom(adj, fanOutOne(adj, acc, Head(pairs)[1], Head(pairs)[2]),
                    Tail(pairs))

\* Environment.step, lines 320-339
fanOut(adj, grid, theTrafficTx) ==
    fanOutFrom(adj,
               [ trafficTx |-> theTrafficTx,
                 txData |-> [i \in Comms |-> <<>>] ],
               deliveries(grid))

\* Environment.step, lines 345-348
isDisrupted(batch) == \E n \in 1..Len(batch) : batch[n].sourceType = 1

\* Faulty variant of updateTrafficRx: only data packets are counted.
updateTrafficRx_DataOnly(theTrafficRx, batches) ==
    [s \in Comms |-> [d \in Comms |->
        IF isDisrupted(batches[d]) THEN theTrafficRx[s][d]
        ELSE theTrafficRx[s][d] \o
             SelectSeq(batches[d],
                       LAMBDA e : e.type = "Packet"
                                  /\ IndexOf(commsPlatformIDs, e.sourceID) = s)]]

\* Faulty variant of updateTrafficRx: a disrupted batch is counted too.
updateTrafficRx_IgnoreDisruption(theTrafficRx, batches) ==
    [s \in Comms |-> [d \in Comms |->
        theTrafficRx[s][d] \o
        SelectSeq(batches[d],
                  LAMBDA e : e.sourceType = 0
                             /\ IndexOf(commsPlatformIDs, e.sourceID) = s)]]

\* Faulty variant of updateTrafficRx: source and destination are swapped.
updateTrafficRx_Transposed(theTrafficRx, batches) ==
    [s \in Comms |-> [d \in Comms |->
        IF isDisrupted(batches[s]) THEN theTrafficRx[s][d]
        ELSE theTrafficRx[s][d] \o
             SelectSeq(batches[s],
                       LAMBDA e : e.sourceType = 0
                                  /\ IndexOf(commsPlatformIDs, e.sourceID) = d)]]

\* Faulty variant of updateTrafficRx: the source of the emission is not
\* looked at, every pair with destination d gets the batch's comms emissions.
updateTrafficRx_AnySource(theTrafficRx, batches) ==
    [s \in Comms |-> [d \in Comms |->
        IF isDisrupted(batches[d]) THEN theTrafficRx[s][d]
        ELSE theTrafficRx[s][d] \o
             SelectSeq(batches[d], LAMBDA e : e.sourceType = 0)]]

\* Environment.step, lines 344-354
updateTrafficRx(theTrafficRx, batches) ==
    [s \in Comms |-> [d \in Comms |->
        IF isDisrupted(batches[d]) THEN theTrafficRx[s][d]
        ELSE theTrafficRx[s][d] \o
             SelectSeq(batches[d],
                       LAMBDA e : e.sourceType = 0
                                  /\ IndexOf(commsPlatformIDs, e.sourceID) = s)]]

\* Faulty variant of the pruning loop: one test, at most one entry dropped.
pruneLog_Once(log, now) ==
    IF log # <<>> /\ now - Head(log).emissionTime > windowSize
    THEN Tail(log)
    ELSE log

\* Environment.step, lines 360-369: drop the head while it is too old
RECURSIVE pruneLog(_, _)
pruneLog(log, now) ==
    IF log # <<>> /\ now - Head(log).emissionTime > windowSize
    THEN pruneLog(Tail(log), now)
    ELSE log

\* Environment.step, lines 357-369
slidingWindow(traffic, now) ==
    IF windowSize > 0
    THEN [s \in Comms |-> [d \in Comms |-> pruneLog(traffic[s][d], now)]]
    ELSE traffic

(***************************************************************************)
(* Construction: CommsPlatform.__init__, DisruptorPlatform.__init__,       *)
(* CommsCoordinator.__init__ and Environment.__init__.                     *)
(***************************************************************************)
\* Faulty variant of idsUnique: always satisfied.
idsUnique_Never(ids) == TRUE

\* len(set(ids)) == len(ids)
idsUnique(ids) == \A i, j \in 1..Len(ids) : ids[i] = ids[j] => i = j

\* Faulty variant of the constructors' checks: theDisruptorDelay is not
\* checked.
constructionError_AnyDelay(cIDs, dIDs, adj, nBins, delay, window, size, tok, epoch) ==
    IF ~idsUnique(cIDs) \/ ~idsUnique(dIDs) THEN "AssertionError" ELSE ""

\* The exception the constructors raise, "" when none: the platforms are
\* built first (CommsPlatform.__init__ line 65, DisruptorPlatform.__init__
\* lines 61-71), then the Environment (lines 153-205).
constructionError(cIDs, dIDs, adj, nBins, delay, window, size, tok, epoch) ==
    LET n == Len(cIDs) + Len(dIDs)
    IN  IF cIDs # <<>> /\ size < 1 THEN "ValueError"
        ELSE IF dIDs # <<>> /\ (tok < 0 \/ nBins < 1 \/ epoch < 1)
        THEN "ValueError"
        ELSE IF ~idsUnique(cIDs) THEN "AssertionError"
        ELSE IF ~idsUnique(dIDs) THEN "AssertionError"
        ELSE IF Len(adj) # n \/ \E r \in 1..Len(adj) : Len(adj[r]) # n
        THEN "AssertionError"
        ELSE IF nBins < 1 THEN "ValueError"
        ELSE IF delay < 1 THEN "AssertionError"
        ELSE IF window < 0 THEN "AssertionError"
        ELSE ""

\* InitWith(comms ids, disruptor ids, theAdjMatrix, theNumFrequencyBins,
\*          theDisruptorDelay, theMediumAccessMethod, theSlidingWindow,
\*          theMaxSize, theDoAck, theNumMaxTokens, theNumTimeStepsPerEpoch)
InitWith(cIDs, dIDs, adj, nBins, delay, theMAC, window, size, ack, tok, epoch) ==
    LET theCommsIDs == cIDs
        theDisruptorIDs == dIDs
        theAdjMatrix == adj
        theNumFrequencyBins == nBins
        theDisruptorDelay == delay
        theMediumAccessMethod == theMAC
        theSlidingWindow == window
        theMaxSize == size
        theDoAck == ack
        theNumMaxTokens == tok
        theNumTimeStepsPerEpoch == epoch
        C == 1..Len(theCommsIDs)
        D == 1..Len(theDisruptorIDs)
        empty == [r \in 1..(numCoordinators + Len(theDisruptorIDs)) |->
                    [b \in 1..theNumFrequencyBins |-> None]]
        err == constructionError(cIDs, dIDs, adj, nBins, delay, window, size,
                                 tok, epoch)
    IN  /\ commsPlatformIDs = theCommsIDs
        /\ disruptorPlatformIDs = theDisruptorIDs
        /\ adjMatrix = theAdjMatrix
        /\ numFrequencyBins = theNumFrequencyBins
        /\ disruptorDelay = theDisruptorDelay
        /\ mac = theMediumAccessMethod
        /\ windowSize = theSlidingWindow
        /\ maxSize = theMaxSize
        /\ doAck = [i \in C |-> theDoAck]
        /\ numMaxTokens = [k \in D |-> theNumMaxTokens]
        /\ numTimeStepsPerEpoch = [k \in D |-> theNumTimeStepsPerEpoch]
        /\ txQueue = [i \in C |-> <<>>]
        /\ rxQueue = [i \in C |-> <<>>]
        /\ currentMsgID = [i \in C |-> 1]
        /\ commsElapsedTime = [i \in C |-> 0]
        /\ numTokensRemaining = [k \in D |-> theNumMaxTokens]
        /\ env = [k \in D |-> None]
        /\ disruptorElapsedTime = [k \in D |-> 0]
        /\ elapsedTimeSteps = [k \in D |-> 0]
        /\ TDMAindex = 0
        /\ elapsedTime = 0
        /\ txData = [i \in C |-> <<>>]
        /\ heap = <<>>
        /\ held = {}
        /\ ret = NoPayload
        /\ raised = err
        /\ history = <<>>
        /\ numTx = 0
        /\ IF err # ""
           THEN \* no Environment exists: the platforms are as constructed
                /\ destIDs = [i \in C |-> <<>>]
                /\ commsDestIDs = [k \in D |-> <<>>]
                /\ data = <<>>
                /\ dataQueue = <<>>
                /\ lists = [data |-> NoLists, queue |-> <<>>,
                            env |-> [k \in D |-> NoLists], next |-> 0]
                /\ trafficTx = <<>>
                /\ trafficRx = <<>>
           ELSE /\ destIDs = [i \in C |->
                     updatePlatformConnectivity(theAdjMatrix, i)]
                /\ commsDestIDs = [k \in D |->
                     updatePlatformConnectivity(theAdjMatrix, k + Len(theCommsIDs))]
                /\ data = empty
                /\ dataQueue = dataQueueAtConstruction(empty, theDisruptorDelay)
                /\ lists = listsAtConstruction(Len(empty), Len(theDisruptorIDs),
                                                Len(dataQueue))
                /\ trafficTx = [s \in C |-> [d \in C |-> <<>>]]
                /\ trafficRx = [s \in C |-> [d \in C |-> <<>>]]

(***************************************************************************)
(* The user's calls between steps.                                         *)
(***************************************************************************)
\* platform.txData(thePayload, theDestID) on comms platform i
TxData(i, thePayload, theDestID) ==
    /\ raised = ""
    /\ numTx < MaxTx
    /\ LET \* line 124: the packet carries a deep copy of the payload
           c == deepcopy(heap, thePayload)
           p == txDataCall(PlatformOf(i), c.value, theDestID)
       IN  /\ txQueue' = [txQueue EXCEPT ![i] = p.txQueue]
           /\ currentMsgID' = [currentMsgID EXCEPT ![i] = p.currentMsgID]
           /\ heap' = c.heap
    /\ numTx' = numTx + 1
    /\ ret' = NoPayload
    /\ UNCHANGED << held, lists >>
    /\ UNCHANGED << config, rxQueue, destIDs, commsElapsedTime,
                    numTokensRemaining, commsDestIDs, env,
                    disruptorElapsedTime, elapsedTimeSteps, TDMAindex,
                    adjMatrix, data, dataQueue, trafficTx, trafficRx,
                    elapsedTime, txData, raised, history >>

\* The driver's loop over the platforms: platform i calls
\* txData(thePayload, dests[i]), one platform after the other.
TxDataEach(thePayload, dests) ==
    /\ raised = ""
    /\ numTx < MaxTx
    /\ \E ps \in { [i \in Comms |->
                     txDataCall(PlatformOf(i),
                                IF IsRef(thePayload) THEN RefOf(Len(heap) + i)
                                ELSE thePayload,
                                dests[i])] } :
          /\ txQueue' = [i \in Comms |-> ps[i].txQueue]
          /\ currentMsgID' = [i \in Comms |-> ps[i].currentMsgID]
    /\ heap' = IF IsRef(thePayload)
               THEN heap \o [i \in Comms |-> heap[Addr(thePayload)]]
               ELSE heap
    /\ UNCHANGED << held, lists >>
    /\ numTx' = numTx + 1
    /\ ret' = NoPayload
    /\ UNCHANGED << config, rxQueue, destIDs, commsElapsedTime,
                    numTokensRemaining, commsDestIDs, env,
                    disruptorElapsedTime, elapsedTimeSteps, TDMAindex,
                    adjMatrix, data, dataQueue, trafficTx, trafficRx,
                    elapsedTime, txData, raised, history >>

\* platform.rxData() on comms platform i
RxData(i) ==
    /\ raised = ""
    /\ LET \* line 155: the caller gets a deep copy of the payload
           c == deepcopy(heap, rxDataValue(PlatformOf(i)))
       IN  /\ ret' = c.value
           /\ heap' = c.heap
           /\ held' = IF IsRef(c.value) THEN held \cup {c.value} ELSE held
           /\ UNCHANGED lists
    /\ rxQueue' = [rxQueue EXCEPT ![i] = rxDataCall(PlatformOf(i)).rxQueue]
    /\ UNCHANGED << config, txQueue, currentMsgID, destIDs, commsElapsedTime,
                    numTokensRemaining, commsDestIDs, env,
                    disruptorElapsedTime, elapsedTimeSteps, TDMAindex,
                    adjMatrix, data, dataQueue, trafficTx, trafficRx,
                    elapsedTime, txData, raised, history, numTx >>

\* env.adjMatrix[m, n] = v, written by the user between steps
SetAdj(m, n, v) ==
    /\ raised = ""
    /\ adjMatrix[m][n] # v
    /\ adjMatrix' = [adjMatrix EXCEPT ![m][n] = v]
    /\ ret' = NoPayload
    /\ UNCHANGED << heap, held, lists >>
    /\ UNCHANGED << config, txQueue, rxQueue, currentMsgID, destIDs,
                    commsElapsedTime, numTokensRemaining, commsDestIDs, env,
                    disruptorElapsedTime, elapsedTimeSteps, TDMAindex, data,
                    dataQueue, trafficTx, trafficRx, elapsedTime, txData,
                    raised, history, numTx >>

\* The user builds a mutable object with the given content, keeps it, and
\* calls platform.txData(theObject, theDestID) on comms platform i.
TxDataNew(i, theContent, theDestID) ==
    /\ raised = ""
    /\ numTx < MaxTx
    /\ LET theObject == RefOf(Len(heap) + 1)
           c == deepcopy(Append(heap, theContent), theObject)
           p == txDataCall(PlatformOf(i), c.value, theDestID)
       IN  /\ txQueue' = [txQueue EXCEPT ![i] = p.txQueue]
           /\ currentMsgID' = [currentMsgID EXCEPT ![i] = p.currentMsgID]
           /\ heap' = c.heap
           /\ held' = held \cup {theObject}
           /\ UNCHANGED lists
    /\ numTx' = numTx + 1
    /\ ret' = NoPayload
    /\ UNCHANGED << config, rxQueue, destIDs, commsElapsedTime,
                    numTokensRemaining, commsDestIDs, env,
                    disruptorElapsedTime, elapsedTimeSteps, TDMAindex,
                    adjMatrix, data, dataQueue, trafficTx, trafficRx,
                    elapsedTime, txData, raised, history >>

\* The user changes the content of an object they hold.
Mutate(theObject, theContent) ==
    /\ raised = ""
    /\ theObject \in held
    /\ heap[Addr(theObject)] # theContent
    /\ heap' = [heap EXCEPT ![Addr(theObject)] = theContent]
    /\ ret' = NoPayload
    /\ UNCHANGED << config, txQueue, rxQueue, currentMsgID, destIDs,
                    commsElapsedTime, numTokensRemaining, commsDestIDs, env,
                    disruptorElapsedTime, elapsedTimeSteps, TDMAindex,
                    adjMatrix, data, dataQueue, trafficTx, trafficRx,
                    elapsedTime, txData, held, lists, raised, history, numTx >>

(***************************************************************************)
(* Environment.step(deltaT).  sample[k] is the bin random.sample draws for *)
(* disruptor k when it has a token to use.                                 *)
(***************************************************************************)
step(deltaT, sample) ==
    /\ raised = ""
    /\ LET \* lines 268-271: Platform.step and DisruptorPlatform.step
           cTime == [i \in Comms |-> commsElapsedTime[i] + deltaT]
           dTime == [k \in Disruptors |-> disruptorElapsedTime[k] + deltaT]
           dSteps == [k \in Disruptors |-> elapsedTimeSteps[k] + 1]
           \* line 274
           cDest == [i \in Comms |-> updatePlatformConnectivity(adjMatrix, i)]
           \* line 277
           now == elapsedTime + deltaT
           \* lines 280-281
           ps == [i \in Comms |-> [PlatformOf(i) EXCEPT !.elapsedTime = cTime[i]]]
       IN  \E c \in { coordinatorStep(ps, TDMAindex) },
              tokens \in { [k \in Disruptors |-> tokensAfterStep(k, dSteps[k])] },
              dDest \in { [k \in Disruptors |->
                  updatePlatformConnectivity(adjMatrix, k + numCommsPlatforms)] } :
           /\ commsElapsedTime' = cTime
           /\ disruptorElapsedTime' = dTime
           /\ elapsedTimeSteps' = dSteps
           /\ destIDs' = cDest
           /\ commsDestIDs' = dDest
           /\ elapsedTime' = now
           /\ ret' = NoPayload
           /\ IF c.raised # ""
              THEN /\ raised' = c.raised
                   /\ numTokensRemaining' = tokens
                   /\ UNCHANGED << txQueue, rxQueue, currentMsgID, env,
                                   TDMAindex, data, dataQueue, trafficTx,
                                   trafficRx, txData, history, lists >>
              ELSE LET \* lines 312-313
                       use == [k \in Disruptors |-> numTokensToUse(tokens[k])]
                       rows == [r \in 1..(numCoordinators + numDisruptorPlatforms) |->
                                  IF r <= numCoordinators THEN c.txPackets
                                  ELSE LET k == r - numCoordinators
                                       IN  getDisruptions(k,
                                               IF use[k] = 1 THEN {sample[k]} ELSE {},
                                               dDest[k], dTime[k])]
                   IN  \* line 325 (the emissions are shared with the snapshot
                       \* of line 316, which so holds the stamped emissions)
                       \E grid \in { stampEmissionTime(rows, now) } :
                       \* lines 320-339
                       \E fan \in { fanOut(adjMatrix, grid, trafficTx) } :
                       \* lines 340-341
                       \E after \in { [i \in Comms |->
                                        putData(c.platforms[i], fan.txData[i])] } :
                       \* lines 284 and 316: a call that waits never returns
                       /\ ~getBlocks(dataQueue)
                       /\ ~putBlocks(Tail(dataQueue), disruptorDelay)
                       /\ raised' = ""
                       /\ numTokensRemaining' =
                             [k \in Disruptors |-> tokens[k] - use[k]]
                       /\ TDMAindex' = c.TDMAindex
                       \* lines 284-309: the popped status is copied for
                       \* each disruptor and the copy filtered in place
                       /\ LET R == numCoordinators + numDisruptorPlatforms
                              \* line 281: the coordinator's row is a new list
                              a0 == lists.next + 1
                              \* line 313: so is each disruptor's row
                              a1 == a0 + numDisruptorPlatforms * (R + 1)
                              \* line 316
                              a2 == a1 + numDisruptorPlatforms
                              theEnv == queueGet(lists.queue)
                              theData ==
                                  [list |-> lists.data.list,
                                   items |-> [r \in 1..R |->
                                      IF r <= numCoordinators THEN a0
                                      ELSE a1 + (r - numCoordinators)]]
                          IN  \E H \in { filterAll(adjMatrix, numDisruptorPlatforms,
                                            storeQueue(<<>>, lists.queue, dataQueue, 1),
                                            theEnv, a0) } :
                              /\ env' = [k \in Disruptors |->
                                    contents(H, theEnvTemp(theEnv, k, a0))]
                              /\ dataQueue' = queuePut(
                                    queueContents(H, lists.queue, dataQueue), grid)
                              /\ lists' =
                                    [data  |-> theData,
                                     queue |-> Append(Tail(lists.queue),
                                                  copyEnvLists(theData, a2)),
                                     env   |-> [k \in Disruptors |->
                                                  theEnvTemp(theEnv, k, a0)],
                                     next  |-> a2 + R + 1]
                       /\ data' = grid
                       /\ txData' = fan.txData
                       /\ txQueue' = [i \in Comms |-> after[i].txQueue]
                       /\ rxQueue' = [i \in Comms |-> after[i].rxQueue]
                       /\ currentMsgID' = [i \in Comms |-> after[i].currentMsgID]
                       /\ trafficTx' = slidingWindow(fan.trafficTx, now)
                       /\ trafficRx' = slidingWindow(
                                         updateTrafficRx(trafficRx, fan.txData), now)
                       /\ history' = Append(history, grid)
    /\ UNCHANGED << config, adjMatrix, numTx, heap, held >>

\* The driver calls env.step(deltaT) at most MaxSteps times
Step(deltaT, sample) ==
    /\ Len(history) < MaxSteps
    /\ step(deltaT, sample)

\* A comms platform has something to send
Busy == \E i \in Comms : txQueue[i] # <<>>

\* The number of steps the driver takes at most when it goes on until the
\* tx queues are empty
MaxDrain == MaxSteps + 4 * MaxTx

\* The driver calls env.step(1) while a platform has something to send, as
\* well as MaxSteps times at most whatever the queues hold
DrainStep ==
    /\ Busy \/ Len(history) < MaxSteps
    /\ Len(history) < MaxDrain
    /\ \E sample \in [Disruptors -> Bins] : step(1, sample)

(***************************************************************************)
(* Environment.trafficStatistics.  A ratio is the pair <<num, den>> in     *)
(* lowest terms; 0.0 is <<0, 1>> and 1.0 is <<1, 1>>.                      *)
(***************************************************************************)
RECURSIVE Gcd(_, _)
Gcd(a, b) == IF b = 0 THEN a ELSE Gcd(b, a % b)

Ratio(n, d) == << n \div Gcd(n, d), d \div Gcd(n, d) >>

trafficStatistics ==
    [s \in Comms |-> [d \in Comms |->
        IF trafficTx[s][d] # <<>>
        THEN Ratio(Len(trafficRx[s][d]), Len(trafficTx[s][d]))
        ELSE <<0, 1>>]]

(***************************************************************************)
(* Specifications.  Comms ids are 10, 20, 30; disruptor ids are 10, 20     *)
(* (ids are scoped by kind); 99 is the id of no platform.                  *)
(***************************************************************************)
AllTrue(n) == [m \in 1..n |-> [j \in 1..n |-> TRUE]]

EmptyGrid ==
    [r \in 1..(numCoordinators + numDisruptorPlatforms) |-> EmptyBins]

\* Spec: two comms platforms and one disruptor with one token per epoch of
\* three steps, round robin over two bins.  Platform 1 sends unicast,
\* multicast (naming itself) and to the id of no platform; platform 2 answers.  The
\* user rewrites the link comms 1 -> comms 2 between steps; the link
\* disruptor 1 -> comms 2 is fixed at construction.
AdjSpec(v) == [AllTrue(3) EXCEPT ![3][2] = v]

Init ==
    \E v \in BOOLEAN, theMaxSize \in 1..2 :
        InitWith(<<10, 20>>, <<10>>, AdjSpec(v), 2, 1, "rr", 0, theMaxSize,
                 TRUE, 1, 3)

Next ==
    \/ \E d \in { <<20>>, <<10, 20>>, <<99, 20>>, <<99>> } : TxData(1, 70, d)
    \/ TxData(2, 71, <<10>>)
    \/ \E v \in BOOLEAN : SetAdj(1, 2, v)
    \/ \E sample \in [Disruptors -> Bins] : Step(1, sample)

Spec == Init /\ [][Next]_vars

\* SpecClear: three comms platforms, no disruptor, all-true adjacency that
\* is never rewritten, each MAC policy with a valid number of bins.
InitClear ==
    \E m \in { <<"rr", 3>>, <<"tdma", 1>>, <<"fdma", 3>> } :
        InitWith(<<10, 20, 30>>, <<>>, AllTrue(3), m[2], 1, m[1], 0, 2,
                 TRUE, 1, 2)

NextClear ==
    \/ \E x \in Payloads, d \in { <<20>>, <<20, 30>> } : TxData(1, x, d)
    \/ TxData(2, 71, <<30>>)
    \/ \E i \in Comms : RxData(i)
    \/ \E sample \in [Disruptors -> Bins] : Step(1, sample)

SpecClear == InitClear /\ [][NextClear]_vars

\* SpecDelay: two comms platforms that send to each other and two
\* disruptors, a delay of one or two steps.  The user rewrites what disruptor 1 observes: the links
\* comms 1 -> disruptor 1 and disruptor 2 -> disruptor 1.
InitDelay ==
    \E theDisruptorDelay \in 1..2 :
        InitWith(<<10, 20>>, <<10, 20>>, AllTrue(4), 2, theDisruptorDelay,
                 "rr", 0, 2, TRUE, 1, 2)

NextDelay ==
    \/ TxData(1, 70, <<20>>)
    \/ TxData(2, 71, <<10>>)
    \/ \E l \in { <<1, 3>>, <<4, 3>> }, v \in BOOLEAN : SetAdj(l[1], l[2], v)
    \/ \E sample \in [Disruptors -> Bins] : Step(1, sample)

SpecDelay == InitDelay /\ [][NextDelay]_vars

\* SpecStats: three comms platforms, no disruptor, all-true adjacency that
\* is never rewritten, each MAC policy with a valid number of bins, without
\* (0) and with a sliding window of one tick; steps of one or two ticks.
InitStats ==
    \E m \in { <<"rr", 3>>, <<"tdma", 1>>, <<"fdma", 3>> }, w \in 0..1 :
        InitWith(<<10, 20, 30>>, <<>>, AllTrue(3), m[2], 1, m[1], w, 2,
                 TRUE, 1, 2)

NextStats ==
    \/ \E d \in { <<20>>, <<20, 30>>, <<20, 20>> } : TxData(1, 70, d)
    \/ TxData(2, 71, <<30>>)
    \/ \E deltaT \in 1..2, sample \in [Disruptors -> Bins] : Step(deltaT, sample)

SpecStats == InitStats /\ [][NextStats]_vars

\* SpecMAC: two comms platforms and one disruptor under every MAC name and
\* number of bins the constructors accept, the ones CommsCoordinator.step
\* rejects included.
InitMAC ==
    \E m \in { <<"rr", 2>>, <<"tdma", 1>>, <<"tdma", 2>>, <<"fdma", 2>>,
               <<"fdma", 1>>, <<"csma", 2>> } :
        InitWith(<<10, 20>>, <<10>>, AllTrue(3), m[2], 1, m[1], 0, 2, TRUE, 1, 2)

NextMAC ==
    \/ \E x \in Payloads : TxData(1, x, <<20>>)
    \/ TxData(2, 71, <<10>>)
    \/ \E i \in Comms : RxData(i)
    \/ \E sample \in [Disruptors -> Bins] : Step(1, sample)

SpecMAC == InitMAC /\ [][NextMAC]_vars

\* SpecBuild: construction with ids that repeat within a kind or across the
\* kinds and with a delay of zero to two steps; round robin over two bins.
InitBuild ==
    \E cIDs \in { <<10, 20>>, <<10, 10>> },
       dIDs \in { <<10>>, <<10, 20>>, <<20, 20>> },
       theDisruptorDelay \in 0..2 :
        InitWith(cIDs, dIDs, AllTrue(Len(cIDs) + Len(dIDs)), 2,
                 theDisruptorDelay, "rr", 0, 2, TRUE, 1, 2)

NextBuild ==
    \/ TxData(1, 70, <<20>>)
    \/ \E sample \in [Disruptors -> Bins] : Step(1, sample)

SpecBuild == InitBuild /\ [][NextBuild]_vars

\* SpecRR: four comms platforms, no disruptor, all-true adjacency, round
\* robin over two bins, with and without Acks.  In a round every platform
\* sends one packet: to its successor, or to the platform two places on.
InitRR ==
    \E theDoAck \in BOOLEAN :
        InitWith(<<10, 20, 30, 40>>, <<>>, AllTrue(4), 2, 1, "rr", 0, 2,
                 theDoAck, 1, 2)

NextRR ==
    \/ \E dests \in { << <<20>>, <<30>>, <<40>>, <<10>> >>,
                      << <<30>>, <<40>>, <<10>>, <<20>> >> } :
          TxDataEach(70, dests)
    \/ \E sample \in [Disruptors -> Bins] : Step(1, sample)

SpecRR == InitRR /\ [][NextRR]_vars

\* SpecEpoch: one comms platform and two disruptors with a budget of zero to
\* two tokens per epoch of one to three steps; round robin over two bins.
InitEpoch ==
    \E theNumMaxTokens \in 0..2, theNumTimeStepsPerEpoch \in 1..3 :
        InitWith(<<10>>, <<10, 20>>, AllTrue(3), 2, 1, "rr", 0, 2, TRUE,
                 theNumMaxTokens, theNumTimeStepsPerEpoch)

NextEpoch ==
    \/ TxData(1, 70, <<10>>)
    \/ \E sample \in [Disruptors -> Bins] : Step(1, sample)

SpecEpoch == InitEpoch /\ [][NextEpoch]_vars

\* SpecAdj: two comms platforms and one disruptor with a token in every
\* step, round robin over two bins; between steps the user rewrites the
\* links comms 1 -> comms 2 and disruptor 1 -> comms 2.
InitAdj ==
    \E v \in BOOLEAN :
        InitWith(<<10, 20>>, <<10>>, [AllTrue(3) EXCEPT ![1][2] = v], 2, 1,
                 "rr", 0, 2, TRUE, 1, 1)

NextAdj ==
    \/ TxData(1, 70, <<20>>)
    \/ \E m \in {1, 3}, v \in BOOLEAN : SetAdj(m, 2, v)
    \/ \E sample \in [Disruptors -> Bins] : Step(1, sample)

SpecAdj == InitAdj /\ [][NextAdj]_vars

\* SpecCopy: three comms platforms, no disruptor, all-true adjacency, round
\* robin over three bins, no Acks.  Platform 1 multicasts a mutable object to platforms
\* 2 and 3; the user changes the objects they hold between the calls.
InitCopy ==
    InitWith(<<10, 20, 30>>, <<>>, AllTrue(3), 3, 1, "rr", 0, 2, FALSE, 1, 2)

NextCopy ==
    \/ TxDataNew(1, 5, <<20, 30>>)
    \/ \E x \in held : Mutate(x, 6)
    \/ \E i \in {2, 3} : RxData(i)
    \/ \E sample \in [Disruptors -> Bins] : Step(1, sample)

SpecCopy == InitCopy /\ [][NextCopy]_vars

\* SpecCoord: three comms platforms, no disruptor, all-true adjacency; round
\* robin with fewer bins than platforms and with as many, TDMA, FDMA with as
\* many bins as platforms and with one more.  Platform 1 queues either
\* payload, platforms 2 and 3 send to their successor, one at a time or all
\* three in one round.
InitCoord ==
    \E m \in { <<"rr", 2>>, <<"rr", 3>>, <<"tdma", 1>>, <<"fdma", 3>>,
               <<"fdma", 4>> } :
        InitWith(<<10, 20, 30>>, <<>>, AllTrue(3), m[2], 1, m[1], 0, 2,
                 TRUE, 1, 2)

NextCoord ==
    \/ \E x \in Payloads : TxData(1, x, <<20>>)
    \/ TxData(2, 70, <<30>>)
    \/ TxData(3, 70, <<10>>)
    \/ TxDataEach(70, << <<20>>, <<30>>, <<10>> >>)
    \/ \E sample \in [Disruptors -> Bins] : Step(1, sample)

SpecCoord == InitCoord /\ [][NextCoord]_vars

\* SpecWindow: two comms platforms, no disruptor, all-true adjacency, round
\* robin; no sliding window (0) or one of one or two ticks; steps that
\* advance the time by zero, one or two ticks.
InitWindow ==
    \E w \in 0..2 :
        InitWith(<<10, 20>>, <<>>, AllTrue(2), 2, 1, "rr", w, 2, TRUE, 1, 2)

NextWindow ==
    \/ \E d \in { <<20>>, <<20, 20>> } : TxData(1, 70, d)
    \/ \E deltaT \in 0..2, sample \in [Disruptors -> Bins] : Step(deltaT, sample)

SpecWindow == InitWindow /\ [][NextWindow]_vars

\* SpecFilter: two comms platforms and two disruptors with the same ids, a
\* delay of one step, a token per disruptor in every step.  What disruptor
\* 1 observes is set at construction: the links comms 1 -> disruptor 1,
\* disruptor 1 -> disruptor 1 and disruptor 2 -> disruptor 1.
InitFilter ==
    \E v \in [{1, 3, 4} -> BOOLEAN] :
        InitWith(<<10, 20>>, <<10, 20>>,
                 [AllTrue(4) EXCEPT ![1][3] = v[1], ![3][3] = v[3], ![4][3] = v[4]],
                 2, 1, "rr", 0, 2, TRUE, 1, 1)

NextFilter ==
    \/ TxData(1, 70, <<20>>)
    \/ \E sample \in [Disruptors -> Bins] : Step(1, sample)

SpecFilter == InitFilter /\ [][NextFilter]_vars

\* SpecLists: two comms platforms and two disruptors with a token at every
\* step, observing one or two steps behind; disruptor 1 does not observe
\* disruptor 2 and may not observe comms platform 1, disruptor 2 observes
\* everything; platform 1 sends to platform 2.
InitLists ==
    \E theDisruptorDelay \in 1..2, v \in BOOLEAN :
        InitWith(<<10, 20>>, <<10, 20>>,
                 [AllTrue(4) EXCEPT ![1][3] = v, ![4][3] = FALSE],
                 2, theDisruptorDelay, "rr", 0, 2, TRUE, 1, 1)

NextLists ==
    \/ TxData(1, 70, <<20>>)
    \/ \E sample \in [Disruptors -> Bins] : Step(1, sample)

SpecLists == InitLists /\ [][NextLists]_vars

\* SpecLate: two comms platforms and two disruptors with a token at every
\* step, observing one or two steps behind.  The matrix is AdjLate until the
\* first step has run; from then on the user may switch the link comms 1 ->
\* disruptor 1 on and the link disruptor 2 -> disruptor 1 off, and never
\* back, so the status of the first step is captured under AdjLate.
AdjLate == [AllTrue(4) EXCEPT ![1][3] = FALSE]

InitLate ==
    \E theDisruptorDelay \in 1..2 :
        InitWith(<<10, 20>>, <<10, 20>>, AdjLate, 2, theDisruptorDelay,
                 "rr", 0, 2, TRUE, 1, 1)

NextLate ==
    \/ TxData(1, 70, <<20>>)
    \/ Len(history) >= 1 /\ SetAdj(1, 3, TRUE)
    \/ Len(history) >= 1 /\ SetAdj(4, 3, FALSE)
    \/ \E sample \in [Disruptors -> Bins] : Step(1, sample)

SpecLate == InitLate /\ [][NextLate]_vars

\* SpecDrain: two comms platforms that acknowledge, no disruptor, all-true
\* adjacency; round robin with one bin and with two, TDMA, FDMA with two
\* bins and with three.  Each platform sends to the other; the driver goes
\* on stepping while a tx queue holds something.  SpecDrainFair adds that
\* the driver's loop does call env.step whenever it can (runModel calls it
\* in every iteration).
InitDrain ==
    \E m \in { <<"rr", 1>>, <<"rr", 2>>, <<"tdma", 1>>, <<"fdma", 2>>,
               <<"fdma", 3>> } :
        InitWith(<<10, 20>>, <<>>, AllTrue(2), m[2], 1, m[1], 0, 2, TRUE, 1, 2)

NextDrain ==
    \/ TxData(1, 70, <<20>>)
    \/ TxData(2, 70, <<10>>)
    \/ DrainStep

SpecDrain == InitDrain /\ [][NextDrain]_vars

SpecDrainFair == SpecDrain /\ WF_vars(DrainStep)

\* SpecTraffic: two comms platforms with rx queues of one item and one
\* disruptor with a token every second step; no sliding window or one of
\* one tick, steps of one or two ticks; the user switches the link comms 1
\* -> comms 2; platform 1 names platform 2 once or twice.
InitTraffic ==
    \E w \in 0..1 :
        InitWith(<<10, 20>>, <<10>>, AllTrue(3), 2, 1, "rr", w, 1, TRUE, 1, 2)

NextTraffic ==
    \/ \E d \in { <<20>>, <<20, 20>> } : TxData(1, 70, d)
    \/ \E v \in BOOLEAN : SetAdj(1, 2, v)
    \/ \E deltaT \in 1..2, sample \in [Disruptors -> Bins] : Step(deltaT, sample)

SpecTraffic == InitTraffic /\ [][NextTraffic]_vars

(***************************************************************************)
(* Claims.                                                                 *)
(***************************************************************************)
StepTaken == Len(history') = Len(history) + 1

IsPacketCell(e) == e # None /\ e.type = "Packet"

\* C1: the observation every disruptor k gets in the n-th step is the
\* adjacency-filtered grid as it stood at the end of step n - disruptorDelay,
\* and the all-empty grid when n <= disruptorDelay; so the snapshots arrive
\* in the order produced, each once, none skipped.
C1_DelayedObservation ==
    [][ StepTaken =>
          LET n == Len(history')
          IN  \A k \in Disruptors :
                env'[k] = IF n <= disruptorDelay
                          THEN EmptyGrid
                          ELSE filterEnv(adjMatrix, k, history[n - disruptorDelay])
      ]_vars

\* C1 witness: with a delay of two, the third step has handed disruptor 2 a
\* grid holding a packet (the one emitted in the first step).
C1_Witness ==
    /\ disruptorDelay = 2
    /\ Len(history) = 3
    /\ \E b \in Bins : IsPacketCell(env[2][1][b]) /\ IsPacketCell(history[1][1][b])
    /\ \A b \in Bins : ~IsPacketCell(history[2][1][b])

\* ---- helpers of the claims
Range(f) == { f[x] : x \in DOMAIN f }
Take(q, n) == SubSeq(q, 1, Min(Len(q), n))
Count(q, x) == Cardinality({ n \in 1..Len(q) : q[n] = x })
Repeat(x, n) == [m \in 1..n |-> x]
IsData(e) == e.type = "Packet"
FullyConnected == adjMatrix = AllTrue(numCommsPlatforms + numDisruptorPlatforms)
RxDataTaken == history' = history /\ numTx' = numTx /\ adjMatrix' = adjMatrix

\* The payloads platform d is sent in a step in which every platform's head
\* is emitted: for each platform s in order, the payload of s's head if that
\* is a data packet naming d (once per time it names d).
SentTo(d) ==
    Concat([s \in Comms |->
        IF txQueue[s] # <<>> /\ IsData(Head(txQueue[s]))
        THEN Repeat(Head(txQueue[s]).payload,
                    Count(Head(txQueue[s]).destID, commsPlatformIDs[d]))
        ELSE <<>>])

\* C2: with all-true adjacency, no disruptors, RR and at least as many bins as
\* platforms, a step appends to every platform's rx queue exactly the payloads
\* of the data packets at the head of a tx queue that name it, in platform
\* order and as far as the queue has room (nothing reaches a platform that is
\* not named); rxData returns the head of the rx queue and removes it.
C2_NextStepDelivery ==
    [][ ( /\ FullyConnected
          /\ numDisruptorPlatforms = 0
          /\ mac = "rr"
          /\ numFrequencyBins >= numCommsPlatforms )
        => /\ StepTaken =>
                \A d \in Comms :
                    rxQueue'[d] = Take(rxQueue[d] \o SentTo(d), maxSize)
           /\ RxDataTaken =>
                \E i \in Comms :
                    /\ ret' = IF rxQueue[i] = <<>> THEN NoPayload
                              ELSE Head(rxQueue[i])
                    /\ rxQueue' = [rxQueue EXCEPT ![i] =
                                     IF @ = <<>> THEN @ ELSE Tail(@)]
      ]_vars

\* C2 witness: under RR platform 1 has multicast 70 and then 71 to platforms
\* 2 and 3, one step apart; both hold <<70, 71>>, platform 1 holds nothing,
\* and platform 2 has just read 70.
C2_Witness ==
    /\ mac = "rr"
    /\ Len(history) = 2
    /\ rxQueue[1] = <<>>
    /\ rxQueue[2] = <<71>>
    /\ rxQueue[3] = <<70, 71>>
    /\ ret = 70

HasToken(batch) == \E n \in 1..Len(batch) : IsDisruptionToken(batch[n])

\* C3: when the batch a step delivers to a platform holds a disruption token,
\* the step adds nothing to that platform's rx queue and no Ack to its tx
\* queue (the tx queue only loses what the coordinator drained, no message id
\* is used), whatever bins the token and the packets occupy.
C3_TokenBlocksBatch ==
    [][ StepTaken =>
          \A i \in Comms :
              HasToken(txData'[i]) =>
                  /\ rxQueue'[i] = rxQueue[i]
                  /\ \/ txQueue'[i] = txQueue[i]
                     \/ txQueue[i] # <<>> /\ txQueue'[i] = Tail(txQueue[i])
                  /\ currentMsgID'[i] = currentMsgID[i]
      ]_vars

\* C3 witness: platform 2's latest batch holds a data packet in bin 0 and a
\* token in bin 1, and platform 2 has received nothing and queued nothing.
C3_Witness ==
    /\ Len(history) = 1
    /\ \E n, m \in 1..Len(txData[2]) :
          /\ IsData(txData[2][n]) /\ txData[2][n].freqBin = 0
          /\ IsDisruptionToken(txData[2][m]) /\ txData[2][m].freqBin = 1
    /\ rxQueue[2] = <<>>
    /\ txQueue[2] = <<>>

PayloadsOf(q) == [n \in 1..Len(q) |-> q[n].payload]

\* No data packet naming platform i has been emitted (the logs are complete
\* when windowSize = 0).
SentNoData(i) ==
    \A s \in Comms : \A n \in 1..Len(trafficTx[s][i]) : ~IsData(trafficTx[s][i][n])

\* C4: a received Ack is never put in the rx queue and generates nothing: a
\* step adds to a platform's rx queue only the payloads of the data packets of
\* its batch, and uses one message id (one Ack) per payload it enqueues; so a
\* platform that was sent no data packet has an empty rx queue and every
\* rxData on it returns None, also when its recipients acknowledge.
C4_AckIsDiscarded ==
    [][ /\ StepTaken =>
            \A i \in Comms :
                ~HasToken(txData'[i]) =>
                    /\ rxQueue'[i] =
                          Take(rxQueue[i] \o PayloadsOf(SelectSeq(txData'[i], IsData)),
                               maxSize)
                    /\ currentMsgID'[i] - currentMsgID[i] =
                          IF doAck[i] THEN Len(rxQueue'[i]) - Len(rxQueue[i]) ELSE 0
        /\ \A i \in Comms : SentNoData(i) => rxQueue[i] = <<>>
        /\ RxDataTaken =>
            \/ ret' = NoPayload /\ rxQueue' = rxQueue
            \/ \E i \in Comms : ~SentNoData(i) /\ rxQueue[i] # <<>>
                                /\ ret' = Head(rxQueue[i])
      ]_vars

\* C4 witness: platform 1 multicast to platforms 2 and 3, both acknowledged,
\* the latest step delivered the two Acks to platform 1, whose rx queue is
\* empty, whose tx queue holds no answer, and whose rxData returned None.
C4_Witness ==
    /\ Len(txData[1]) = 2
    /\ \A n \in 1..2 : IsAckPacket(txData[1][n])
    /\ { txData[1][n].sourceID : n \in 1..2 } = {20, 30}
    /\ SentNoData(1)
    /\ rxQueue[1] = <<>>
    /\ txQueue[1] = <<>>
    /\ currentMsgID[1] = 2
    /\ ret = NoPayload

ClearRR ==
    /\ FullyConnected
    /\ numDisruptorPlatforms = 0
    /\ mac = "rr"
    /\ numFrequencyBins >= numCommsPlatforms
    /\ \A i \in Comms : doAck[i]

Drained(q) == IF q = <<>> THEN q ELSE Tail(q)

\* The Acks with payload m from source id src in sequence q
AcksOf(q, src, m) ==
    SelectSeq(q, LAMBDA e : IsAckPacket(e) /\ e.sourceID = src /\ e.payload = m)

C6_StatisticsAreOne ==
    (FullyConnected /\ numDisruptorPlatforms = 0) =>
        \A s, d \in Comms :
            trafficStatistics[s][d] =
                IF trafficTx[s][d] # <<>> THEN <<1, 1>> ELSE <<0, 1>>

\* C6 witness: under TDMA, after three steps, platform 1's packets to
\* platform 2 and platform 2's Ack to platform 1 are logged; the statistic
\* of a pair without traffic is 0.0.
C6_Witness ==
    /\ mac = "tdma"
    /\ windowSize = 0
    /\ Len(history) = 3
    /\ Len(trafficTx[1][2]) = 2
    /\ Len(trafficTx[2][1]) = 1
    /\ trafficStatistics[1][2] = <<1, 1>>
    /\ trafficStatistics[2][1] = <<1, 1>>
    /\ trafficTx[3][1] = <<>>
    /\ trafficStatistics[3][1] = <<0, 1>>

\* What a step appends to a log cell or to a queue (no sliding window).
Grown(before, after) == SubSeq(after, Len(before) + 1, Len(after))

\* C7: every emission a step appends to trafficRx[m][n] is a data Packet whose
\* payload that step's putData has enqueued into platform n's rx queue.
C7_RxLogIsReceived ==
    [][ (StepTaken /\ windowSize = 0) =>
          \A m, n \in Comms :
              \A e \in Range(Grown(trafficRx[m][n], trafficRx'[m][n])) :
                  /\ IsData(e)
                  /\ e.payload \in Range(Grown(rxQueue[n], rxQueue'[n]))
      ]_vars

\* The emissions of the grid a step has produced, row by row.
Emitted(grid) == Concat([r \in 1..Len(grid) |-> SelectSeq(grid[r], IsEmission)])

\* The comms emissions of a batch that platform s has sent.
PacketsFrom(s, batch) ==
    SelectSeq(batch, LAMBDA e : e.sourceType = 0
                                /\ IndexOf(commsPlatformIDs, e.sourceID) = s)

\* C8: (a) in a step where platform s emits a packet naming d and a disruptor
\* emits a token whose destination list names d, d's batch holds the token,
\* d's rx queue is untouched, trafficTx[s][d] gains the packet and
\* trafficRx[s][d] gains nothing; (b) in every step and for every d, the rx
\* log cells of d gain the packets of d's batch when the batch holds no
\* disruptor emission, and gain nothing when it holds one.
C8_DisruptedBatchNotLogged ==
    [][ (StepTaken /\ windowSize = 0) =>
          \A d \in Comms :
              /\ \A s \in Comms :
                   \A e, t \in Range(Emitted(data')) :
                       ( /\ e.sourceType = 0
                         /\ IndexOf(commsPlatformIDs, e.sourceID) = s
                         /\ commsPlatformIDs[d] \in Range(e.destID)
                         /\ IsDisruptionToken(t)
                         /\ commsPlatformIDs[d] \in Range(t.destID) )
                       => /\ t \in Range(txData'[d])
                          /\ rxQueue'[d] = rxQueue[d]
                          /\ e \in Range(Grown(trafficTx[s][d], trafficTx'[s][d]))
                          /\ trafficRx'[s][d] = trafficRx[s][d]
              /\ \A s \in Comms :
                   Grown(trafficRx[s][d], trafficRx'[s][d]) =
                       IF \E n \in 1..Len(txData'[d]) : txData'[d][n].sourceType = 1
                       THEN <<>>
                       ELSE PacketsFrom(s, txData'[d])
              /\ \A s \in Comms :
                   Take(trafficRx'[s][d], Len(trafficRx[s][d])) = trafficRx[s][d]
      ]_vars

\* C8 witness: in the first step platform 1's packet and a token reach
\* platform 2 together; the tx log holds the packet, the rx log is empty, the
\* statistic is 0.0 and platform 2's rx queue is empty.
C8_Witness ==
    /\ Len(history) = 1
    /\ HasToken(txData[2])
    /\ PacketsFrom(1, txData[2]) # <<>>
    /\ Len(trafficTx[1][2]) = 1
    /\ trafficRx[1][2] = <<>>
    /\ trafficStatistics[1][2] = <<0, 1>>
    /\ rxQueue[2] = <<>>

\* C9: in every step, a comms emission e of platform s whose destination list
\* holds the id of comms platform d is appended to trafficTx[s][d] whether or
\* not adjMatrix[s][d] is true; when adjMatrix[s][d] is false, e is not in
\* d's batch, trafficRx[s][d] does not grow, and d's rx queue is untouched
\* unless the batch holds a data packet of another source.
C9_TxLogCountsAttempts ==
    [][ (StepTaken /\ windowSize = 0) =>
          \A s, d \in Comms :
              \A e \in Range(Emitted(data')) :
                  ( /\ e.sourceType = 0
                    /\ IndexOf(commsPlatformIDs, e.sourceID) = s
                    /\ commsPlatformIDs[d] \in Range(e.destID) )
                  => /\ e \in Range(Grown(trafficTx[s][d], trafficTx'[s][d]))
                     /\ ~adjMatrix[s][d] =>
                          /\ e \notin Range(txData'[d])
                          /\ trafficRx'[s][d] = trafficRx[s][d]
                          /\ \/ rxQueue'[d] = rxQueue[d]
                             \/ \E o \in Range(txData'[d]) :
                                   IsData(o) /\ o.sourceID # e.sourceID
      ]_vars

\* C9 witness: the link from platform 1 to platform 2 is down when platform
\* 1's packet to platform 2 is emitted; the attempt is logged, nothing is
\* delivered, the rx log is empty and the statistic is 0.0.
C9_Witness ==
    /\ Len(history) = 1
    /\ ~adjMatrix[1][2]
    /\ \E e \in Range(Emitted(data)) :
          IsData(e) /\ e.sourceID = 10 /\ 20 \in Range(e.destID)
                    /\ trafficTx[1][2] = <<e>>
    /\ txData[2] = <<>>
    /\ trafficRx[1][2] = <<>>
    /\ rxQueue[2] = <<>>
    /\ trafficStatistics[1][2] = <<0, 1>>

\* Two emissions that are one packet, whatever bin and emission time the
\* step has given it.
SamePacket(a, b) ==
    /\ a.type = b.type
    /\ a.sourceID = b.sourceID
    /\ a.destID = b.destID
    /\ a.payload = b.payload
    /\ a.msgID = b.msgID

\* Destination lists with ids of other platforms, of the sender itself and
\* of no platform.
AnyDestID == { <<20>>, <<10>>, <<10, 20>>, <<99, 20>>, <<99>> }

C11_OverflowDrops ==
    /\ [](/\ raised = ""
          /\ \A i \in Comms : /\ Len(txQueue[i]) <= maxSize
                              /\ Len(rxQueue[i]) <= maxSize)
    /\ [][ /\ \A i \in Comms, x \in Payloads, d \in AnyDestID :
                (TxData(i, x, d) /\ Len(txQueue[i]) = maxSize) =>
                    txQueue' = txQueue /\ raised' = ""
           /\ StepTaken =>
                \A i \in Comms :
                    Len(rxQueue[i]) = maxSize => rxQueue'[i] = rxQueue[i]
         ]_vars

\* C11 witness: platform 2's tx queue (one place) holds the Ack of the packet
\* it received; its txData call has used message id 2 and the queue still
\* holds the Ack alone.
C11_Witness ==
    /\ maxSize = 1
    /\ Len(history) = 1
    /\ numTx = 2
    /\ rxQueue[2] = <<70>>
    /\ Len(txQueue[2]) = 1
    /\ IsAckPacket(txQueue[2][1])
    /\ currentMsgID[2] = 3
    /\ raised = ""

\* A MAC configuration CommsCoordinator.step rejects.
InvalidMAC ==
    \/ mac = "tdma" /\ numFrequencyBins # 1
    \/ mac = "fdma" /\ numFrequencyBins < numCommsPlatforms
    \/ mac \notin {"rr", "tdma", "fdma"}

\* C12: a TDMA configuration with more than one bin, an FDMA configuration
\* with fewer bins than platforms and an unknown MAC name fail at
\* construction: the constructed state carries the error, no step is taken
\* and no platform has advanced.
C12_FailsAtConstruction ==
    InvalidMAC =>
        /\ raised # ""
        /\ history = <<>>
        /\ elapsedTime = 0
        /\ \A i \in Comms : commsElapsedTime[i] = 0
        /\ \A k \in Disruptors : elapsedTimeSteps[k] = 0

\* The ids of a tuple are pairwise different.
Distinct(ids) == Cardinality(Range(ids)) = Len(ids)

\* C13: construction raises AssertionError, and nothing runs, when two comms
\* platforms or two disruptors have the same id; it raises nothing when the
\* ids are unique within each kind, a comms platform and a disruptor having
\* the same id included (the other arguments being valid).
C13_IdsUniquePerKind ==
    /\ (~Distinct(commsPlatformIDs) \/ ~Distinct(disruptorPlatformIDs)) =>
          /\ raised = "AssertionError"
          /\ history = <<>> /\ numTx = 0 /\ data = <<>>
    /\ ( /\ Distinct(commsPlatformIDs) /\ Distinct(disruptorPlatformIDs)
         /\ disruptorDelay >= 1 ) => raised = ""

\* C13 witness: comms ids <<10, 20>> and disruptor ids <<10, 20>>; a step
\* has run and disruptor 10's token is in the batch of comms platform 10.
C13_Witness ==
    /\ commsPlatformIDs = <<10, 20>>
    /\ disruptorPlatformIDs = <<10, 20>>
    /\ raised = ""
    /\ Len(history) = 1
    /\ \E n \in 1..Len(txData[1]) :
          IsDisruptionToken(txData[1][n]) /\ txData[1][n].sourceID = 10

\* The cells of the coordinator's row that hold a packet.
PacketBins(grid) == { b \in 1..Len(grid[1]) : IsEmission(grid[1][b]) }

\* Platform i's head is in the coordinator's row of grid.
HeadPlaced(i, grid) ==
    \E b \in PacketBins(grid) : SamePacket(grid[1][b], Head(txQueue[i]))

\* C14: four platforms, two bins, round robin.  (a) A step that finds one
\* pending packet on every platform places exactly two packets in bins and
\* leaves the other two at the head of their tx queues.  (b) The next step
\* (no txData call in between) places those two packets in bins.
C14_LeftoversGoNext ==
    [][ ( /\ StepTaken
          /\ mac = "rr" /\ numCommsPlatforms = 4 /\ numFrequencyBins = 2 )
        => /\ (\A i \in Comms : Len(txQueue[i]) = 1) =>
                /\ Cardinality(PacketBins(data')) = 2
                /\ Cardinality({ i \in Comms :
                        /\ txQueue'[i] # <<>>
                        /\ Head(txQueue'[i]) = Head(txQueue[i])
                        /\ ~HeadPlaced(i, data') }) = 2
           /\ ( /\ Len(history) = 1 /\ numTx = 1
                /\ Cardinality(PacketBins(history[1])) = 2 )
              => \A i \in Comms :
                    ( /\ txQueue[i] # <<>>
                      /\ IsData(Head(txQueue[i]))
                      /\ Head(txQueue[i]).time = 0 )
                    => HeadPlaced(i, data')
      ]_vars

\* C14 (as the code has it): under round robin a step places the head of
\* platform i in a bin exactly when fewer than numFrequencyBins platforms
\* before i in the coordinator's order have a non-empty tx queue, and a head
\* that is not placed stays the head; so with four platforms of one packet
\* each and two bins, two packets are placed and the other two are placed in
\* the next step when the platforms before them have queued nothing since.
C14_LeftoversWaitForEarlier ==
    [][ (StepTaken /\ mac = "rr") =>
          /\ \A i \in Comms :
                txQueue[i] # <<>> =>
                    IF Cardinality({ j \in 1..(i - 1) : txQueue[j] # <<>> })
                          < numFrequencyBins
                    THEN HeadPlaced(i, data')
                    ELSE /\ ~HeadPlaced(i, data')
                         /\ txQueue'[i] # <<>>
                         /\ Head(txQueue'[i]) = Head(txQueue[i])
          /\ (\A i \in Comms : Len(txQueue[i]) = 1) =>
                Cardinality(PacketBins(data')) = Min(numFrequencyBins,
                                                     numCommsPlatforms)
      ]_vars

\* C14 witness: every platform sent one packet to its successor before the
\* first step; the second step has placed platform 2's Ack and platform 3's
\* packet, and platform 4's packet is still the head of its tx queue.
C14_Witness ==
    /\ numCommsPlatforms = 4 /\ numFrequencyBins = 2
    /\ Len(history) = 2
    /\ numTx = 1
    /\ IsAckPacket(history[2][1][1]) /\ history[2][1][1].sourceID = 20
    /\ IsData(history[2][1][2]) /\ history[2][1][2].sourceID = 30
    /\ txQueue[4] # <<>>
    /\ IsData(Head(txQueue[4])) /\ Head(txQueue[4]).time = 0

\* The number of tokens in disruptor k's row of a grid.
TokensIn(k, grid) ==
    Cardinality({ b \in 1..Len(grid[numCoordinators + k]) :
                    IsEmission(grid[numCoordinators + k][b]) })

\* C15: no disruptor's budget is ever negative; in a step that brings a
\* disruptor's step count to a multiple of numTimeStepsPerEpoch the budget
\* getDisruptions starts with (what it leaves plus the tokens it has emitted)
\* is numMaxTokens.
C15_BudgetResets ==
    /\ [](\A k \in Disruptors : numTokensRemaining[k] >= 0)
    /\ [][ StepTaken =>
             \A k \in Disruptors :
                 elapsedTimeSteps'[k] % numTimeStepsPerEpoch[k] = 0 =>
                     numTokensRemaining'[k] + TokensIn(k, data') = numMaxTokens[k]
         ]_vars

\* C15 witness: two tokens per epoch of three steps; the first two steps have
\* used the budget up, the third has reset it and used one token.
C15_Witness ==
    /\ numMaxTokens[1] = 2
    /\ numTimeStepsPerEpoch[1] = 3
    /\ Len(history) = 3
    /\ TokensIn(1, history[1]) = 1 /\ TokensIn(1, history[2]) = 1
    /\ TokensIn(1, history[3]) = 1
    /\ numTokensRemaining[1] = 1

\* The budget of disruptor k is reset in the step being taken.
ResetInStep(k) == elapsedTimeSteps'[k] % numTimeStepsPerEpoch[k] = 0

\* The step in which disruptor k's budget was last reset; 0 when it has not
\* been reset since construction.
LastResetStep(k) ==
    LET resets == { m \in 1..elapsedTimeSteps[k] :
                      m % numTimeStepsPerEpoch[k] = 0 }
    IN  IF resets = {} THEN 0
        ELSE CHOOSE m \in resets : \A o \in resets : o <= m

\* The steps whose getDisruptions used the budget disruptor k holds now:
\* from the step of the last reset on, or from the first step on.
StepsOfBudget(k) ==
    { m \in 1..Len(history) : m >= LastResetStep(k) }

RECURSIVE SumOver(_, _)
SumOver(S, f) ==
    IF S = {} THEN 0
    ELSE LET x == CHOOSE x \in S : TRUE IN f[x] + SumOver(S \ {x}, f)

TokensOfBudget(k) ==
    SumOver(StepsOfBudget(k), [m \in 1..Len(history) |-> TokensIn(k, history[m])])

\* C16: when a step resets a disruptor's budget, getDisruptions has run in
\* exactly numTimeStepsPerEpoch steps since construction or since the reset
\* before, and at no time have more than numMaxTokens tokens been emitted
\* from one budget.
C16_EpochLength ==
    /\ [](\A k \in Disruptors : TokensOfBudget(k) <= numMaxTokens[k])
    /\ [][ StepTaken =>
             \A k \in Disruptors :
                 ResetInStep(k) =>
                     Cardinality(StepsOfBudget(k)) = numTimeStepsPerEpoch[k]
         ]_vars

\* The comms ids of the true entries of row m of the adjacency matrix, in
\* platform order.
AdjacentIDs(m) ==
    SelectSeq(commsPlatformIDs,
              LAMBDA x : adjMatrix[m][IndexOf(commsPlatformIDs, x)])

\* The row of the adjacency matrix of the platform that sent emission e.
RowOf(e) ==
    IF e.sourceType = 0 THEN IndexOf(commsPlatformIDs, e.sourceID)
    ELSE IndexOf(disruptorPlatformIDs, e.sourceID) + numCommsPlatforms

\* C17: after construction and after every step, destIDs of comms platform i
\* lists the comms ids of the true entries of row i of adjMatrix and
\* commsDestIDs of disruptor k those of row C + k; the matrix as the user
\* left it before a step gives that step's tokens their destination list and
\* decides which batches an emission is put in.
C17_ConnectivityFollowsMatrix ==
    /\ \A i \in Comms : destIDs[i] = AdjacentIDs(i)
    /\ \A k \in Disruptors : commsDestIDs[k] = AdjacentIDs(numCommsPlatforms + k)
    /\ [][ StepTaken =>
             /\ \A i \in Comms : destIDs'[i] = AdjacentIDs(i)
             /\ \A k \in Disruptors :
                   /\ commsDestIDs'[k] = AdjacentIDs(numCommsPlatforms + k)
                   /\ \A b \in Bins :
                         IsEmission(data'[numCoordinators + k][b]) =>
                             data'[numCoordinators + k][b].destID =
                                 AdjacentIDs(numCommsPlatforms + k)
             /\ \A e \in Range(Emitted(data')), d \in Comms :
                   Count(txData'[d], e) =
                       IF adjMatrix[RowOf(e)][d]
                       THEN Count(e.destID, commsPlatformIDs[d])
                       ELSE 0
         ]_vars

\* C17 witness: both links to comms platform 2 were up in the first step and
\* are down in the second; the second token names platform 1 alone, platform
\* 1's packet to platform 2 is in no batch, and the lists have followed.
C17_Witness ==
    /\ Len(history) = 2
    /\ ~adjMatrix[1][2] /\ ~adjMatrix[3][2]
    /\ destIDs[1] = <<10>>
    /\ commsDestIDs[1] = <<10>>
    /\ \E b \in Bins : /\ IsEmission(history[1][2][b])
                       /\ history[1][2][b].destID = <<10, 20>>
    /\ \E b \in Bins : /\ IsEmission(history[2][2][b])
                       /\ history[2][2][b].destID = <<10>>
    /\ \E b \in Bins : /\ IsPacketCell(history[2][1][b])
                       /\ history[2][1][b].destID = <<20>>
    /\ txData[2] = <<>>

\* The cells of a grid that hold emission e.
CellsOf(e, grid) ==
    { c \in (1..Len(grid)) \X Bins : grid[c[1]][c[2]] = e }

\* C18: a step that emits a packet naming several destinations takes one item
\* from the sender's tx queue and has the packet in exactly one cell of bins;
\* that one emission is in the batch of platform d exactly when d's id is in
\* its list and the sender's row of adjMatrix is true at d (once per time the
\* list names d).
C18_Multicast ==
    [][ StepTaken =>
          \A e \in Range(Emitted(data')) :
              (e.sourceType = 0 /\ Len(e.destID) > 1) =>
                  /\ Cardinality(CellsOf(e, data')) = 1
                  /\ LET s == IndexOf(commsPlatformIDs, e.sourceID)
                     IN  /\ SamePacket(e, Head(txQueue[s]))
                         /\ \A n \in 1..Len(txQueue'[s]) :
                               ~SamePacket(e, txQueue'[s][n])
                         /\ \A d \in Comms :
                               Count(txData'[d], e) =
                                   IF adjMatrix[s][d]
                                   THEN Count(e.destID, commsPlatformIDs[d])
                                   ELSE 0
      ]_vars

\* C18 witness: the second step has emitted platform 1's packet to <<10, 20>>
\* in one bin, and both platforms have it in their batch and its payload in
\* their rx queue.
C18_Witness ==
    /\ Len(history) = 2
    /\ \E b \in Bins :
          /\ IsPacketCell(data[1][b])
          /\ data[1][b].destID = <<10, 20>>
          /\ CellsOf(data[1][b], data) = { <<1, b>> }
          /\ Count(txData[1], data[1][b]) = 1
          /\ Count(txData[2], data[1][b]) = 1
    /\ 70 \in Range(rxQueue[1])
    /\ 70 \in Range(rxQueue[2])

\* The emissions of comms platform i in the order in which they were placed
\* in bins, step after step.
EmittedBy(i) ==
    SelectSeq(Concat([n \in 1..Len(history) |-> Emitted(<<history[n][1]>>)]),
              LAMBDA e : e.sourceID = commsPlatformIDs[i])

MsgIDsOf(q) == [n \in 1..Len(q) |-> q[n].msgID]

StrictlyIncreasing(q) == \A m, n \in 1..Len(q) : m < n => q[m] < q[n]

\* C19: for every comms platform, the msg ids of the emissions it has placed
\* in bins, in emission order, followed by those waiting in its tx queue, are
\* strictly increasing, start at 1 and are below the next id to be issued;
\* data packets and Acks draw from the same counter, which never goes back.
C19_MsgIDsIncrease ==
    /\ [](\A i \in Comms :
            LET ids == MsgIDsOf(EmittedBy(i)) \o MsgIDsOf(txQueue[i])
            IN  /\ StrictlyIncreasing(ids)
                /\ \A n \in 1..Len(ids) : ids[n] >= 1 /\ ids[n] < currentMsgID[i]
                /\ ids # <<>> => ids[1] = 1
                /\ currentMsgID[i] = 1 => ids = <<>>)
    /\ [][ \A i \in Comms : currentMsgID'[i] >= currentMsgID[i] ]_vars

\* C19 witness: platform 2 has emitted an Ack with msg id 1 and then a data
\* packet with msg id 2.
C19_Witness ==
    /\ Len(EmittedBy(2)) = 2
    /\ IsAckPacket(EmittedBy(2)[1]) /\ EmittedBy(2)[1].msgID = 1
    /\ IsData(EmittedBy(2)[2]) /\ EmittedBy(2)[2].msgID = 2
    /\ currentMsgID[2] = 3

\* The emissions in the observation of disruptor k.
Observed(k) == IF env[k] = None THEN {} ELSE Range(Emitted(env[k]))

\* C20: construction with a disruptorDelay below one raises AssertionError
\* and nothing runs; in every step the observation each disruptor is given is
\* the filtered head of the history queue as it stood before the step, so it
\* holds no emission that this step places in bins (packet or token: all it
\* holds was stamped in an earlier step) and does not depend on the tokens
\* any disruptor emits in this step.
C20_NoSameStepObservation ==
    /\ [](disruptorDelay < 1 =>
            raised = "AssertionError" /\ history = <<>> /\ numTx = 0)
    /\ [][ StepTaken =>
             \A k \in Disruptors :
                 /\ env'[k] = filterEnv(adjMatrix, k, dataQueue[1])
                 /\ \A e \in Observed(k)' :
                       /\ e \notin Range(Emitted(data'))
                       /\ e.emissionTime # NoTime
                       /\ e.emissionTime < elapsedTime'
         ]_vars

\* C20 witness: delay one, two disruptors; in the second step disruptor 1
\* observes the packet and disruptor 2's token of the first step, while the
\* bins hold the second step's packet and disruptor 2's new token.
C20_Witness ==
    /\ disruptorDelay = 1
    /\ numDisruptorPlatforms = 2
    /\ Len(history) = 2
    /\ \E b \in Bins : IsPacketCell(env[1][1][b]) /\ env[1][1][b].emissionTime = 1
    /\ \E b \in Bins : IsEmission(env[1][3][b]) /\ env[1][3][b].emissionTime = 1
    /\ \E b \in Bins : IsPacketCell(data[1][b]) /\ data[1][b] \notin Observed(1)
    /\ \E b \in Bins : IsEmission(data[3][b]) /\ data[3][b] \notin Observed(1)

\* The payloads the simulator holds: in the packets of the tx queues and of
\* the bins, and in the rx queues.
PayloadsInside ==
    UNION { Range(PayloadsOf(txQueue[i])) \cup Range(rxQueue[i]) : i \in Comms }
    \cup { e.payload : e \in { x \in Range(Emitted(data)) : x.sourceType = 0 } }

\* C21: the user never holds a reference to an object the simulator holds
\* (txData stores a copy, rxData returns a new copy), so no call and no
\* change the user makes to an object they hold (the sender's original, a
\* received payload) changes the content of a payload in a tx queue, in the
\* bins or in an rx queue; rxData returns an object with the content of the
\* queued payload that no other reference points to.
C21_DeepCopyIsolation ==
    /\ [](held \cap PayloadsInside = {})
    /\ [][ /\ \A x \in PayloadsInside : Content(heap', x) = Content(heap, x)
           /\ \A i \in Comms :
                 (RxDataTaken /\ rxQueue'[i] # rxQueue[i]) =>
                     /\ Content(heap', ret') = Content(heap, Head(rxQueue[i]))
                     /\ IsRef(Head(rxQueue[i])) =>
                           /\ IsRef(ret')
                           /\ ret' \notin held \cup PayloadsInside
                           /\ ret' \notin PayloadsInside'
         ]_vars

\* C21 witness: platform 1 has multicast an object of content 5; the user
\* has changed the original and the payload platform 2 received to 6, and
\* platform 3 has then received an object of content 5.
C21_Witness ==
    /\ Len(heap) = 4
    /\ heap[1] = 6
    /\ heap[3] = 6
    /\ held = { RefOf(1), RefOf(3), RefOf(4) }
    /\ ret = RefOf(4)
    /\ Content(heap, ret) = 5
    /\ rxQueue[3] = <<>>

\* The loops of lines 357-369 have ended: every log is empty or starts with
\* an emission inside the sliding window.
Pruned(traffic, now) ==
    \A s \in Comms, d \in Comms :
        \/ traffic[s][d] = <<>>
        \/ now - Head(traffic[s][d]).emissionTime <= windowSize

\* C22: once an Environment is constructed and as long as the coordinator
\* raises nothing, no call of a step waits and the step runs to its end: the
\* history queue is not empty when step gets from it and not full when step
\* puts in it, the platforms' queues never hold more than theMaxSize items
\* (a put on a full queue is skipped, a get on an empty one too), and the
\* pruning loops have stopped with every log empty or inside the window.
C22_StepRunsToCompletion ==
    /\ [](raised = "" =>
            /\ ~getBlocks(dataQueue)
            /\ ~putBlocks(Tail(dataQueue), disruptorDelay)
            /\ \A i \in Comms : /\ Len(txQueue[i]) <= maxSize
                                /\ Len(rxQueue[i]) <= maxSize)
    /\ [][ (StepTaken /\ windowSize > 0) =>
              /\ Pruned(trafficTx', elapsedTime')
              /\ Pruned(trafficRx', elapsedTime') ]_vars

\* C22 witness: two steps have run; the first filled platform 3's rx queue
\* and, with the Acks, its tx queue; the second, two ticks later, emptied
\* the logs of the first step's packets and logged platform 3's Ack.
C22_Witness ==
    /\ windowSize = 1
    /\ mac = "rr"
    /\ Len(history) = 2
    /\ elapsedTime = 3
    /\ Len(rxQueue[3]) = maxSize
    /\ currentMsgID[1] = 2
    /\ currentMsgID[2] = 3
    /\ trafficTx[1][3] = <<>>
    /\ trafficTx[2][3] = <<>>
    /\ Len(trafficTx[3][1]) = 1
    /\ Len(txQueue[3]) = 1

\* C23: the history queue holds exactly disruptorDelay snapshots after
\* construction and before and after every step; a step removes the oldest
\* snapshot and adds its own grid as the newest.
C23_DelayQueueIsFull ==
    /\ [](raised = "" => Len(dataQueue) = disruptorDelay)
    /\ [][ StepTaken =>
              /\ Len(dataQueue) = disruptorDelay
              /\ Len(dataQueue') = disruptorDelay
              /\ dataQueue' = Append(Tail(dataQueue), data') ]_vars

\* C23 witness: with a delay of two, three steps have run and the queue
\* holds the grids of the second and third step, the second with a packet.
C23_Witness ==
    /\ disruptorDelay = 2
    /\ Len(history) = 3
    /\ dataQueue = << history[2], history[3] >>
    /\ \E b \in Bins : IsPacketCell(history[2][1][b])
    /\ history[2] # history[3]

\* The comms platforms with something to transmit.
Pending == { i \in Comms : txQueue[i] # <<>> }

\* C24: each cell of the grid is empty or holds one emission, and after a
\* step the number of occupied cells of the coordinator's row is at most
\* the number of bins, at most the number of platforms and at most the
\* number of platforms whose tx queue was not empty when the step began.
C24_OccupiedBinsBounded ==
    /\ [](raised = "" =>
            \A r \in 1..Len(data), b \in Bins :
                \/ data[r][b] = None
                \/ data[r][b].type \in {"Packet", "AckPacket", "DisruptionToken"})
    /\ [][ StepTaken =>
              /\ Len(data'[1]) = numFrequencyBins
              /\ Cardinality(PacketBins(data')) <= numFrequencyBins
              /\ Cardinality(PacketBins(data')) <= numCommsPlatforms
              /\ Cardinality(PacketBins(data')) <= Cardinality(Pending)
         ]_vars

\* C24 witness: round robin over three bins; platform 1 alone had items,
\* two of them, when the first step began: one cell is occupied and
\* platform 1's second item is still queued.
C24_Witness ==
    /\ mac = "rr" /\ numFrequencyBins = 3
    /\ Len(history) = 1
    /\ PacketBins(data) = {1}
    /\ data[1][1].payload = 70 /\ data[1][1].sourceID = 10
    /\ Len(txQueue[1]) = 1 /\ Head(txQueue[1]).payload = 71
    /\ txQueue[3] = <<>>

\* The positions of platform i's tx queue whose item is gone after the step
\* (msg ids tell the items of one platform apart).
Removed(i) ==
    { n \in 1..Len(txQueue[i]) :
        \A m \in 1..Len(txQueue'[i]) : txQueue'[i][m].msgID # txQueue[i][n].msgID }

\* C25: under every policy a step removes nothing from platform i's tx
\* queue or its head alone; the head is removed exactly when it is in the
\* coordinator's row of the grid, every occupied cell of that row holds the
\* removed head of one platform, and the items that stay are the start of
\* the new queue in their old order (the Acks of the step come after them).
C25_OneHeadPerPlatform ==
    [][ StepTaken =>
          /\ \A i \in Comms :
                /\ Removed(i) \subseteq {1}
                /\ txQueue[i] # <<>> => (1 \in Removed(i) <=> HeadPlaced(i, data'))
                /\ LET rest == IF Removed(i) = {} THEN txQueue[i]
                               ELSE Tail(txQueue[i])
                   IN  /\ Len(txQueue'[i]) >= Len(rest)
                       /\ SubSeq(txQueue'[i], 1, Len(rest)) = rest
          /\ \A b \in PacketBins(data') :
                \E i \in Comms : /\ 1 \in Removed(i)
                                 /\ SamePacket(data'[1][b], Head(txQueue[i]))
          /\ Cardinality(PacketBins(data')) =
                Cardinality({ i \in Comms : Removed(i) # {} })
      ]_vars

\* C25 witness: FDMA over four bins; platform 1 had queued payloads 70 and
\* 71: the first step has placed 70 in bin 0 and 71 is the head; the second
\* step has placed 71 and platform 2's Ack.
C25_Witness ==
    /\ mac = "fdma" /\ numFrequencyBins = 4
    /\ Len(history) = 2
    /\ IsPacketCell(history[1][1][1]) /\ history[1][1][1].payload = 70
    /\ history[1][1][2] = None
    /\ IsPacketCell(history[2][1][1]) /\ history[2][1][1].payload = 71
    /\ history[2][1][2] # None /\ IsAckPacket(history[2][1][2])
    /\ txQueue[1] = <<>>

\* The heads of the non-empty tx queues in platform order.
PendingHeads ==
    Concat([i \in Comms |-> IF txQueue[i] # <<>> THEN <<Head(txQueue[i])>>
                            ELSE <<>>])

\* C26: under round robin every step scans the platforms from the first
\* one: the coordinator's row holds, from bin 0 on and without a gap, the
\* heads of the non-empty tx queues in platform order, as many as there are
\* bins, and the cells after them are empty; so platform i's head is placed
\* exactly when fewer than numFrequencyBins platforms before i have a
\* non-empty queue, and a platform with an empty queue takes no bin.
C26_RoundRobinPacksBins ==
    [][ (StepTaken /\ mac = "rr") =>
          /\ \A b \in Bins :
                IF b <= Len(PendingHeads)
                THEN /\ data'[1][b] # None
                     /\ SamePacket(data'[1][b], PendingHeads[b])
                ELSE data'[1][b] = None
          /\ \A i \in Comms :
                txQueue[i] # <<>> =>
                    (HeadPlaced(i, data') <=>
                        Cardinality({ j \in 1..(i - 1) : txQueue[j] # <<>> })
                            < numFrequencyBins)
      ]_vars

\* C26 witness: two bins; all three platforms have sent to their successor.
\* The first step placed the packets of platforms 1 and 2; the second step
\* finds platform 1 empty and places platform 2's Ack in bin 0 and platform
\* 3's packet in bin 1.
C26_Witness ==
    /\ mac = "rr" /\ numFrequencyBins = 2
    /\ Len(history) = 2
    /\ numTx = 1
    /\ IsPacketCell(history[1][1][1]) /\ history[1][1][1].sourceID = 10
    /\ IsPacketCell(history[1][1][2]) /\ history[1][1][2].sourceID = 20
    /\ data[1][1] # None /\ IsAckPacket(data[1][1]) /\ data[1][1].sourceID = 20
    /\ IsPacketCell(data[1][2]) /\ data[1][2].sourceID = 30
    /\ data[1][2].freqBin = 1

\* The platform (from 1 on) whose turn the n-th step of a TDMA run is.
Turn(n) == ((n - 1) % numCommsPlatforms) + 1

\* C27: under TDMA with one bin, the n-th step takes from platform
\* ((n - 1) mod numPlatforms) alone: the bin holds that platform's head, or
\* nothing when its queue is empty, and no other queue loses an item; the
\* TDMA index goes up by one modulo numPlatforms in every step, whatever the
\* queues hold, so that any numPlatforms steps in a row give every platform
\* the bin once.
C27_TDMATurns ==
    /\ []((mac = "tdma" /\ raised = "") =>
            /\ TDMAindex = Len(history) % numCommsPlatforms
            /\ \A m \in 1..(Len(history) - numCommsPlatforms + 1) :
                  \A i \in Comms :
                      Cardinality({ n \in m..(m + numCommsPlatforms - 1) :
                                      Turn(n) = i }) = 1)
    /\ [][ (StepTaken /\ mac = "tdma") =>
              LET i == Turn(Len(history'))
              IN  /\ i = TDMAindex + 1
                  /\ TDMAindex' = (TDMAindex + 1) % numCommsPlatforms
                  /\ Len(data'[1]) = 1
                  /\ IF txQueue[i] = <<>>
                     THEN data'[1][1] = None /\ Removed(i) = {}
                     ELSE /\ data'[1][1] # None
                          /\ SamePacket(data'[1][1], Head(txQueue[i]))
                          /\ Removed(i) = {1}
                  /\ \A j \in Comms \ {i} : Removed(j) = {}
         ]_vars

\* C27 witness: platform 1 had nothing in the first step, and the bin was
\* empty; the second and third step have placed the packets of platforms 2
\* and 3, and the index is back at platform 1.
C27_Witness ==
    /\ mac = "tdma"
    /\ Len(history) = 3
    /\ history[1][1][1] = None
    /\ IsPacketCell(history[2][1][1]) /\ history[2][1][1].sourceID = 20
    /\ IsPacketCell(history[3][1][1]) /\ history[3][1][1].sourceID = 30
    /\ TDMAindex = 0

\* C28: under FDMA with at least as many bins as platforms, a step puts in
\* bin i the head of platform i's tx queue, or nothing when that queue is
\* empty, and leaves the bins beyond the platforms empty; so every platform
\* with a non-empty queue transmits its head in every step.
C28_FDMAFixedBins ==
    [][ (StepTaken /\ mac = "fdma") =>
          /\ numFrequencyBins >= numCommsPlatforms
          /\ \A b \in Bins :
                IF b <= numCommsPlatforms /\ txQueue[b] # <<>>
                THEN /\ data'[1][b] # None
                     /\ SamePacket(data'[1][b], Head(txQueue[b]))
                     /\ data'[1][b].freqBin = b - 1
                ELSE data'[1][b] = None
          /\ \A i \in Comms :
                txQueue[i] # <<>> => HeadPlaced(i, data') /\ Removed(i) = {1}
      ]_vars

\* C28 witness: four bins, three platforms; in the first step platform 1 had
\* nothing and platforms 2 and 3 a packet each: bin 0 is empty, bins 1 and 2
\* hold the packets and bin 3 is empty.
C28_Witness ==
    /\ mac = "fdma" /\ numFrequencyBins = 4
    /\ Len(history) = 1
    /\ data[1][1] = None
    /\ IsPacketCell(data[1][2]) /\ data[1][2].sourceID = 20
    /\ IsPacketCell(data[1][3]) /\ data[1][3].sourceID = 30
    /\ data[1][4] = None

\* Every emission of a grid carries the index (from 0) of the cell it is in.
BinsMatch(grid) ==
    \A r \in 1..Len(grid) :
        \A b \in 1..Len(grid[r]) :
            grid[r][b] # None => grid[r][b].freqBin = b - 1

\* C29: every emission in cell b of a row of the grid has freqBin = b, in
\* the current grid, in every snapshot of the history queue and in every
\* disruptor's observation.
C29_FreqBinIsCell ==
    [](raised = "" =>
          /\ BinsMatch(data)
          /\ \A n \in 1..Len(dataQueue) : BinsMatch(dataQueue[n])
          /\ \A k \in Disruptors : env[k] # None => BinsMatch(env[k]))

\* C29 witness: in the second step the grid holds a packet in bin 1, and
\* disruptor 1 observes a token that disruptor 2 placed in bin 1 in the
\* first step.
C29_Witness ==
    /\ Len(history) = 2
    /\ disruptorDelay = 1
    /\ data[1][2] # None /\ data[1][2].freqBin = 1
    /\ dataQueue[1] = data
    /\ env[1][3][2] # None
    /\ IsDisruptionToken(env[1][3][2]) /\ env[1][3][2].freqBin = 1
    /\ env[1][3][2].emissionTime = 1

\* C30: a step that emits a packet of comms platform s whose destination
\* list names comms platform d has that packet exactly once in
\* trafficTx[s][d] afterwards, whatever the list (d named twice included).
C30_LoggedOncePerDestination ==
    [][ StepTaken =>
          \A e \in Range(Emitted(<<data'[1]>>)) :
              \A d \in Comms :
                  commsPlatformIDs[d] \in Range(e.destID) =>
                      Count(trafficTx'[IndexOf(commsPlatformIDs, e.sourceID)][d],
                            e) = 1
      ]_vars

\* The entries of a log that the step being taken has appended: those
\* stamped with the time of the step.
AddedTo(log) == SelectSeq(log, LAMBDA e : e.emissionTime = elapsedTime')

\* C31: every emission a step appends to trafficRx[s][d] has been appended
\* by the same step to trafficTx[s][d] (it is there after the step and was
\* not there before), at least as often; so trafficRx[s][d] only ever holds
\* emissions that trafficTx[s][d] holds or has held.
C31_ReceivedWasAttempted ==
    /\ [](raised = "" =>
            \A s \in Comms, d \in Comms :
                Range(trafficRx[s][d]) \subseteq Range(trafficTx[s][d]))
    /\ [][ StepTaken =>
              \A s \in Comms, d \in Comms :
                  \A e \in Range(AddedTo(trafficRx'[s][d])) :
                      /\ e \notin Range(trafficRx[s][d])
                      /\ e \notin Range(trafficTx[s][d])
                      /\ Count(AddedTo(trafficTx'[s][d]), e) >=
                             Count(AddedTo(trafficRx'[s][d]), e)
                      /\ Count(AddedTo(trafficRx'[s][d]), e) >= 1
                      /\ IndexOf(commsPlatformIDs, e.sourceID) = s
                      /\ commsPlatformIDs[d] \in Range(e.destID)
         ]_vars

\* C31 witness: a token kept platform 1's first packet from platform 2;
\* the user took the disruptor's link to platform 2 down and the second step
\* delivered the second packet: the transmit log of the pair (1, 2) holds
\* both packets and the receive log the second one.
C31_Witness ==
    /\ Len(history) = 2
    /\ ~adjMatrix[3][2]
    /\ Len(trafficTx[1][2]) = 2
    /\ Len(trafficRx[1][2]) = 1
    /\ trafficRx[1][2][1] = trafficTx[1][2][2]
    /\ trafficRx[1][2][1].emissionTime = elapsedTime

\* Every entry of every log of a traffic matrix is inside the window.
AllInWindow(traffic, now) ==
    \A s \in Comms, d \in Comms :
        \A n \in 1..Len(traffic[s][d]) :
            now - traffic[s][d][n].emissionTime <= windowSize

\* Log q starts with the entries of log p, in their order.
IsPrefix(p, q) == Len(p) <= Len(q) /\ SubSeq(q, 1, Len(p)) = p

\* C32: (time never goes back: deltaT >= 0) with a sliding window, after
\* every step every entry of every log of trafficTx and trafficRx, not the
\* head alone, has elapsedTime - emissionTime <= windowSize, and an entry
\* that is inside the window by its emission time is kept; without a window
\* (windowSize = 0) no step removes an entry from a log.
C32_LogsInsideWindow ==
    /\ []((raised = "" /\ windowSize > 0) =>
             /\ AllInWindow(trafficTx, elapsedTime)
             /\ AllInWindow(trafficRx, elapsedTime))
    /\ [][ StepTaken =>
              \A s \in Comms, d \in Comms :
                  LET kept(log) ==
                        IF windowSize = 0 THEN log
                        ELSE SelectSeq(log, LAMBDA e :
                               elapsedTime' - e.emissionTime <= windowSize)
                  IN  /\ IsPrefix(kept(trafficTx[s][d]), trafficTx'[s][d])
                      /\ IsPrefix(kept(trafficRx[s][d]), trafficRx'[s][d])
         ]_vars

\* C32 witness: a window of one tick; the first step (time 1) logged a
\* packet twice for the pair (1, 2), the second step (time 2) logged the next
\* packet, the third step (time 3) has dropped both entries of the first step
\* and kept the entry of the second and its own.
C32_Witness ==
    /\ windowSize = 1
    /\ Len(history) = 3
    /\ elapsedTime = 3
    /\ Len(trafficTx[1][2]) = 1
    /\ trafficTx[1][2][1].emissionTime = 2
    /\ trafficTx[1][2][1].time = 1
    /\ trafficRx[1][2] = trafficTx[1][2]
    /\ Len(trafficTx[2][1]) = 2

\* The row of the adjacency matrix of the source of the emission in a cell
\* of row r of a grid: a comms platform in the coordinator's row, a
\* disruptor in the rows after it.
SourceRow(r, e) ==
    IF r <= numCoordinators
    THEN CHOOSE i \in Comms : commsPlatformIDs[i] = e.sourceID
    ELSE numCommsPlatforms
         + (CHOOSE j \in Disruptors : disruptorPlatformIDs[j] = e.sourceID)

Served(i) ==
    IF mac = "rr"
    THEN Cardinality({ j \in 1..(i - 1) : txQueue[j] # <<>> }) < numFrequencyBins
    ELSE IF mac = "tdma" THEN TDMAindex + 1 = i
    ELSE TRUE

\* The items of platform i's tx queue that the step being taken has queued.
QueuedInStep(i) ==
    SelectSeq(txQueue'[i],
              LAMBDA e : \A n \in 1..Len(txQueue[i]) : txQueue[i][n].msgID # e.msgID)

\* C34 as stated, last part: a data packet that is the head of its platform's
\* tx queue and was created after the last step (so it was queued on an empty
\* queue) is in the grid of the next step.
C34_EmittedInNextStep ==
    [][ StepTaken =>
          \A i \in Comms :
              ( /\ txQueue[i] # <<>>
                /\ IsData(Head(txQueue[i]))
                /\ Head(txQueue[i]).time = elapsedTime )
              => HeadPlaced(i, data')
      ]_vars

\* C34 (as the code has it): a platform's time is the environment's time;
\* txData stamps the packet with that time, which is never changed; a step
\* advances the time first, stamps every emission it places with the new
\* time as emission time and stamps the Acks it queues with the new time as
\* time of creation; so emissionTime > time for every emitted packet.  The
\* head of a tx queue is emitted in the next step exactly when the
\* coordinator serves its platform in that step (round robin: fewer than
\* numFrequencyBins platforms before it are pending; TDMA: it is the
\* platform's turn; FDMA: always).
C34_TimesOfAPacket ==
    /\ [](raised = "" =>
            /\ \A i \in Comms :
                  /\ commsElapsedTime[i] = elapsedTime
                  /\ \A n \in 1..Len(txQueue[i]) :
                        /\ txQueue[i][n].time <= elapsedTime
                        /\ txQueue[i][n].emissionTime = NoTime
            /\ \A n \in 1..Len(history) :
                  \A b \in Bins :
                      history[n][1][b] # None =>
                          /\ history[n][1][b].time < history[n][1][b].emissionTime
                          /\ history[n][1][b].emissionTime <= elapsedTime)
    /\ [][ \A i \in Comms :
              (numTx' = numTx + 1 /\ Len(txQueue'[i]) = Len(txQueue[i]) + 1) =>
                  txQueue'[i][Len(txQueue'[i])].time = elapsedTime ]_vars
    /\ [][ StepTaken =>
              /\ elapsedTime' > elapsedTime
              /\ \A b \in Bins :
                    data'[1][b] # None =>
                        /\ data'[1][b].emissionTime = elapsedTime'
                        /\ \E i \in Comms :
                              /\ txQueue[i] # <<>>
                              /\ SamePacket(data'[1][b], Head(txQueue[i]))
                              /\ data'[1][b].time = Head(txQueue[i]).time
              /\ \A i \in Comms :
                    /\ txQueue[i] # <<>> => (HeadPlaced(i, data') <=> Served(i))
                    /\ \A n \in 1..Len(QueuedInStep(i)) :
                          /\ IsAckPacket(QueuedInStep(i)[n])
                          /\ QueuedInStep(i)[n].time = elapsedTime'
         ]_vars

\* C34 witness: TDMA; platform 2 queued a packet before the first step
\* (time 0); the first step (one tick) served platform 1, the second (two
\* ticks) has emitted the packet with emission time 3, and platform 3 has
\* queued its Ack with time of creation 3.
C34_Witness ==
    /\ mac = "tdma"
    /\ Len(history) = 2
    /\ elapsedTime = 3
    /\ history[1][1][1] = None
    /\ IsPacketCell(data[1][1])
    /\ data[1][1].sourceID = 20
    /\ data[1][1].time = 0
    /\ data[1][1].emissionTime = 3
    /\ txQueue[3] # <<>>
    /\ IsAckPacket(Head(txQueue[3]))
    /\ Head(txQueue[3]).time = 3

\* The emissions of a row of a grid.
InRow(grid, r) == { grid[r][b] : b \in Bins } \ { None }

\* Every log of the traffic matrices, as one set of emissions.
Logged(traffic) == UNION { Range(traffic[s][d]) : s \in Comms, d \in Comms }

\* C35: a comms platform and a disruptor have the same id.  In every step
\* a token of the disruptor (an emission of a disruptor's row) is put in
\* platform d's batch exactly when the matrix is true from the disruptor's
\* row C + k to d, is in no log of trafficTx or trafficRx, and a batch that
\* holds it leaves the rx queue and the receive logs of d as they were; a
\* packet of the comms platform (an emission of the coordinator's row) is put
\* in d's batch exactly when it names d and the matrix is true from the comms
\* row to d, and a batch of packets alone is received.  Each disruptor's
\* observation is filtered by the row of the source's kind.
C35_SharedIdsKeptApart ==
    [][ StepTaken =>
          /\ \A k \in Disruptors :
                \A e \in InRow(data', numCoordinators + k) :
                    /\ e.sourceID = disruptorPlatformIDs[k]
                    /\ e \notin Logged(trafficTx') \cup Logged(trafficRx')
                    /\ \A d \in Comms :
                          /\ Count(txData'[d], e) =
                                IF adjMatrix[numCommsPlatforms + k][d] THEN 1 ELSE 0
                          /\ Count(txData'[d], e) > 0 =>
                                /\ rxQueue'[d] = rxQueue[d]
                                /\ \A s \in Comms : trafficRx'[s][d] = trafficRx[s][d]
          /\ \A e \in InRow(data', 1) :
                \E s \in Comms :
                    /\ e.sourceID = commsPlatformIDs[s]
                    /\ \A d \in Comms :
                          /\ Count(txData'[d], e) =
                                IF adjMatrix[s][d]
                                THEN Count(e.destID, commsPlatformIDs[d])
                                ELSE 0
                          /\ Count(trafficTx'[s][d], e) =
                                Count(e.destID, commsPlatformIDs[d])
          /\ \A d \in Comms :
                (txData'[d] # <<>> /\ Range(txData'[d]) \subseteq InRow(data', 1)) =>
                    /\ \A s \in Comms :
                          Len(trafficRx'[s][d]) =
                              Len(trafficRx[s][d])
                              + Cardinality({ n \in 1..Len(txData'[d]) :
                                    txData'[d][n].sourceID = commsPlatformIDs[s] })
                    /\ Len(rxQueue[d]) < maxSize /\ (\E n \in 1..Len(txData'[d]) : IsData(txData'[d][n]))
                          => Len(rxQueue'[d]) > Len(rxQueue[d])
          /\ \A k \in Disruptors :
                \A r \in 1..Len(dataQueue[1]) :
                    \A b \in Bins :
                        dataQueue[1][r][b] # None =>
                            env'[k][r][b] =
                                IF adjMatrix[SourceRow(r, dataQueue[1][r][b])]
                                            [numCommsPlatforms + k]
                                THEN dataQueue[1][r][b] ELSE None
      ]_vars

\* C35 witness: comms platform 1 and the disruptor both have id 10; the
\* link comms 1 -> comms 2 is up and the link disruptor -> comms 2 is down:
\* the second step has put the packet of comms 10 in platform 2's batch, not
\* the token of disruptor 10, and platform 2 has received the payload, while
\* platform 1's batch holds the token.
C35_Witness ==
    /\ commsPlatformIDs[1] = disruptorPlatformIDs[1]
    /\ Len(history) = 2
    /\ adjMatrix[1][2] /\ ~adjMatrix[3][2]
    /\ Len(txData[2]) = 1
    /\ IsData(txData[2][1]) /\ txData[2][1].sourceID = 10
    /\ rxQueue[2] # <<>>
    /\ \E b \in Bins : data[2][b] # None /\ data[2][b].sourceID = 10
    /\ \E n \in 1..Len(txData[1]) : IsDisruptionToken(txData[1][n])
    /\ Len(trafficRx[1][2]) = 1

\* C36: in every state, for every ordered pair (s, d), every emission is in
\* trafficRx[s][d] at most as often as in trafficTx[s][d], so the receive log
\* is never longer than the transmit log and every entry of
\* trafficStatistics is a ratio between 0 and 1.
C36_StatisticsBetweenZeroAndOne ==
    [](raised = "" =>
          \A s \in Comms, d \in Comms :
              /\ Len(trafficRx[s][d]) <= Len(trafficTx[s][d])
              /\ \A e \in Range(trafficRx[s][d]) :
                    Count(trafficRx[s][d], e) <= Count(trafficTx[s][d], e)
              /\ trafficStatistics[s][d][1] >= 0
              /\ trafficStatistics[s][d][2] > 0
              /\ trafficStatistics[s][d][1] <= trafficStatistics[s][d][2])

\* C36 witness: a window of one tick; platform 1 has sent two packets to
\* platform 2, the second naming it twice: the first is in the transmit log
\* alone (it was not received), the second is twice in both logs, and the
\* statistic of the pair is 2/3.
C36_Witness ==
    /\ windowSize = 1
    /\ Len(history) = 3
    /\ Len(trafficTx[1][2]) = 3
    /\ Len(trafficRx[1][2]) = 2
    /\ trafficStatistics[1][2] = <<2, 3>>

\* The data packets of platform d's batch of the step being taken, in order.
DataIn(d) == SelectSeq(txData'[d], LAMBDA e : e.type = "Packet")

\* The payloads the step being taken has put in platform d's rx queue.
Enqueued(d) == SubSeq(rxQueue'[d], Len(rxQueue[d]) + 1, Len(rxQueue'[d]))

\* C37: a step in which platform d (doAck set) is sent a batch: a batch
\* with a token enqueues nothing and generates no Ack; otherwise the rx queue
\* takes the payloads of the batch's data packets in order as long as it has
\* room, one msg id is drawn and one Ack is built per payload enqueued and
\* none for a packet that is dropped; the Acks are queued in that order as
\* long as the tx queue has room, each addressed to the source of its packet
\* alone and carrying the packet's msg id as payload.
C37_AckPerEnqueuedPayload ==
    [][ StepTaken =>
          \A d \in Comms :
              LET acks == QueuedInStep(d)
                  room == maxSize - (Len(txQueue[d]) - Cardinality(Removed(d)))
              IN  /\ IsPrefix(rxQueue[d], rxQueue'[d])
                  /\ Len(Enqueued(d)) =
                        IF \E n \in 1..Len(txData'[d]) : IsDisruptionToken(txData'[d][n])
                        THEN 0
                        ELSE Min(Len(DataIn(d)), maxSize - Len(rxQueue[d]))
                  /\ currentMsgID'[d] - currentMsgID[d] =
                        IF doAck[d] THEN Len(Enqueued(d)) ELSE 0
                  /\ Len(acks) = IF doAck[d] THEN Min(Len(Enqueued(d)), room) ELSE 0
                  /\ \A n \in 1..Len(Enqueued(d)) :
                        Enqueued(d)[n] = DataIn(d)[n].payload
                  /\ \A n \in 1..Len(acks) :
                        /\ IsAckPacket(acks[n])
                        /\ acks[n].sourceID = commsPlatformIDs[d]
                        /\ acks[n].destID = << DataIn(d)[n].sourceID >>
                        /\ acks[n].payload = DataIn(d)[n].msgID
                        /\ acks[n].msgID = currentMsgID[d] + n - 1
      ]_vars

\* C37 witness: platform 2's rx queue holds one item.  The first packet was
\* lost to a token and drew no Ack; the second, which names platform 2
\* twice, was delivered twice in the third step: the first copy was enqueued
\* and acknowledged, the second was dropped and drew no Ack.
C37_Witness ==
    /\ maxSize = 1
    /\ Len(history) = 3
    /\ Len(txData[2]) = 2
    /\ txData[2][1] = txData[2][2]
    /\ txData[2][1].msgID = 2
    /\ rxQueue[2] = <<70>>
    /\ currentMsgID[2] = 2
    /\ Len(txQueue[2]) = 1
    /\ Head(txQueue[2]).payload = 2
    /\ Len(trafficTx[1][2]) >= 3

\* The list objects of a status: its outer list and its row lists
ListsOf(c) == {c.list} \cup { c.items[r] : r \in 1..Len(c.items) }

\* The statuses that exist: the bins grid, the history queue's entries and
\* the observation of each disruptor that has one
Statuses ==
    << lists.data >> \o lists.queue
        \o SelectSeq([k \in 1..Len(lists.env) |-> lists.env[k]],
                     LAMBDA c : c # NoLists)

\* No two statuses share a list, and no status uses a list twice: there are
\* as many lists as the statuses have places for one
SeparateLists ==
    Cardinality(UNION { ListsOf(Statuses[i]) : i \in 1..Len(Statuses) })
        = Len(Statuses) * (1 + Len(lists.data.items))

\* C38: filtering the delayed status for one disruptor changes nothing else.
\* The bins grid, every entry of the history queue and every disruptor's
\* observation are made of list objects of their own (emissions alone are
\* shared); and a step gives each disruptor the popped status filtered by
\* its own column of the matrix only, whatever the other disruptors' filters
\* emptied, and leaves the entries still in the queue as they were.
C38_FilterTouchesOwnCopyOnly ==
    /\ [](raised = "" => SeparateLists)
    /\ [][ Len(history') = Len(history) + 1 =>
             /\ \A k \in Disruptors :
                   env'[k] = filterEnv(adjMatrix, k, Head(dataQueue))
             /\ \A n \in 1..(Len(dataQueue) - 1) :
                   dataQueue'[n] = dataQueue[n + 1] ]_vars

\* Two steps behind: disruptor 1 has had a cell of its copy emptied that
\* disruptor 2 still observes, while the queue still holds a later status
\* with an emission in it.
C38_Witness ==
    /\ raised = ""
    /\ disruptorDelay = 2
    /\ Len(history) >= 2
    /\ \E r \in 1..Len(env[2]) : \E b \in Bins :
          env[1][r][b] = None /\ env[2][r][b] # None
    /\ \E r \in 1..Len(dataQueue[1]) : \E b \in Bins : dataQueue[1][r][b] # None

\* C39: the filter of a delayed status reads the matrix as it is in the
\* step that delivers the status.  In the step n > disruptorDelay, a cell
\* that held an emission at the end of step n - disruptorDelay is observed
\* by disruptor k exactly when the matrix is, in step n, true from the
\* emission's source to k; what the matrix was when the status was captured
\* plays no part.
C39_FilterReadsMatrixAtDelivery ==
    [][ StepTaken /\ Len(history') > disruptorDelay =>
          \A k \in Disruptors :
              \A r \in 1..Len(history[Len(history') - disruptorDelay]) :
                  \A b \in Bins :
                      LET e == history[Len(history') - disruptorDelay][r][b]
                          adjacentNow ==
                              adjMatrix[SourceRow(r, e)][numCommsPlatforms + k]
                      IN  e # None =>
                            /\ adjacentNow => env'[k][r][b] = e
                            /\ ~adjacentNow => env'[k][r][b] = None
      ]_vars

\* C39 witness: the status of the first step, captured under AdjLate, has
\* been delivered.  It held a packet of comms platform 1, which disruptor 1
\* was not adjacent to at capture and is now, and observes; and a token of
\* disruptor 2, which disruptor 1 was adjacent to at capture and is no
\* longer, and does not observe.
C39_Witness ==
    /\ raised = ""
    /\ Len(history) = 1 + disruptorDelay
    /\ ~AdjLate[1][3] /\ adjMatrix[1][3]
    /\ AdjLate[4][3] /\ ~adjMatrix[4][3]
    /\ \E b \in Bins :
          /\ IsPacketCell(history[1][1][b])
          /\ history[1][1][b].sourceID = commsPlatformIDs[1]
          /\ env[1][1][b] = history[1][1][b]
    /\ \E b \in Bins :
          /\ history[1][3][b] # None
          /\ env[1][3][b] = None

\* C40: eventual drain.  Under round robin, TDMA with one bin and FDMA with
\* at least as many bins as platforms, once the users have stopped calling
\* txData and the driver goes on calling step, every tx queue is empty after
\* finitely many steps and stays empty: the step is never refused while a
\* queue holds something, and from some point on no queue holds anything.
C40_EventualDrain ==
    /\ [](raised = "" /\ Busy => Len(history) < MaxDrain)
    /\ <>[](raised = "" /\ ~Busy)

\* C40 witness: under TDMA the users have made all their calls, the driver
\* has stepped more than MaxSteps times, a platform has sent an Ack and every
\* tx queue is empty.
C40_Witness ==
    /\ mac = "tdma"
    /\ numTx = MaxTx
    /\ Len(history) > MaxSteps
    /\ ~Busy
    /\ \E n \in 1..Len(history) : \E b \in Bins :
          history[n][1][b] # None /\ IsAckPacket(history[n][1][b])

====
